---- MODULE Spec2Model ----
(***************************************************************************)
(* MLX artifact store and resumable downloader (package llm,               *)
(* MLXModelManager).  Strings are sequences of one-character strings, a    *)
(* path is a sequence of path elements, and the filesystem maps every      *)
(* existing path to DIR or to the size of the regular file at that path.   *)
(***************************************************************************)
EXTENDS Integers, Sequences, FiniteSets, TLC

VARIABLES fs, dl, hist, out, meta, env, run

vars == <<fs, dl, hist, out, meta, env, run>>

----------------------------------------------------------------------------
(* Bounds of the model *)

\* largest number of bytes one Read of a response body returns
MaxChunk == 2

\* requests for one file after which the server stops answering 416
MaxRequests == 3

\* times the process is killed in the middle of a download
MaxCrashes == 1

\* entries of the store root drawn for the store specification
MaxEntries == 2

----------------------------------------------------------------------------
(* strings *)

NoName == <<>>

Min(a, b) == IF a < b THEN a ELSE b

UpperChars == <<"A", "B", "C", "D", "E", "F", "G", "H", "I", "J", "K", "L", "M",
                "N", "O", "P", "Q", "R", "S", "T", "U", "V", "W", "X", "Y", "Z">>

LowerChars == <<"a", "b", "c", "d", "e", "f", "g", "h", "i", "j", "k", "l", "m",
                "n", "o", "p", "q", "r", "s", "t", "u", "v", "w", "x", "y", "z">>

ToLower(s) ==
    [i \in 1..Len(s) |->
        IF \E k \in 1..Len(UpperChars) : UpperChars[k] = s[i]
        THEN LowerChars[CHOOSE k \in 1..Len(UpperChars) : UpperChars[k] = s[i]]
        ELSE s[i]]

HasPrefix(s, prefix) ==
    /\ Len(prefix) <= Len(s)
    /\ SubSeq(s, 1, Len(prefix)) = prefix

HasSuffix(s, suffix) ==
    /\ Len(suffix) <= Len(s)
    /\ SubSeq(s, Len(s) - Len(suffix) + 1, Len(s)) = suffix

Contains(s, sub) ==
    \E i \in 1..(Len(s) - Len(sub) + 1) : SubSeq(s, i, i + Len(sub) - 1) = sub

ReplaceAll(s, old, new) == [i \in 1..Len(s) |-> IF s[i] = old THEN new ELSE s[i]]

----------------------------------------------------------------------------
(* file names of the program *)

ConfigJSON == <<"c", "o", "n", "f", "i", "g", ".", "j", "s", "o", "n">>
TokenizerJSON == <<"t", "o", "k", "e", "n", "i", "z", "e", "r", ".", "j", "s", "o", "n">>
TokenizerConfigJSON == <<"t", "o", "k", "e", "n", "i", "z", "e", "r", "_", "c", "o", "n", "f", "i", "g", ".", "j", "s", "o", "n">>
GenerationConfigJSON == <<"g", "e", "n", "e", "r", "a", "t", "i", "o", "n", "_", "c", "o", "n", "f", "i", "g", ".", "j", "s", "o", "n">>
SpecialTokensMapJSON == <<"s", "p", "e", "c", "i", "a", "l", "_", "t", "o", "k", "e", "n", "s", "_", "m", "a", "p", ".", "j", "s", "o", "n">>
TokenizerModel == <<"t", "o", "k", "e", "n", "i", "z", "e", "r", ".", "m", "o", "d", "e", "l">>
PreprocessorConfigJSON == <<"p", "r", "e", "p", "r", "o", "c", "e", "s", "s", "o", "r", "_", "c", "o", "n", "f", "i", "g", ".", "j", "s", "o", "n">>
ChatTemplateJSON == <<"c", "h", "a", "t", "_", "t", "e", "m", "p", "l", "a", "t", "e", ".", "j", "s", "o", "n">>
AddedTokensJSON == <<"a", "d", "d", "e", "d", "_", "t", "o", "k", "e", "n", "s", ".", "j", "s", "o", "n">>
VocabJSON == <<"v", "o", "c", "a", "b", ".", "j", "s", "o", "n">>
MergesTxt == <<"m", "e", "r", "g", "e", "s", ".", "t", "x", "t">>
ExtNpz == <<".", "n", "p", "z">>
ExtSafetensors == <<".", "s", "a", "f", "e", "t", "e", "n", "s", "o", "r", "s">>
ExtSafetensorsIndex == <<".", "s", "a", "f", "e", "t", "e", "n", "s", "o", "r", "s", ".", "i", "n", "d", "e", "x", ".", "j", "s", "o", "n">>
ShardPrefix == <<"m", "o", "d", "e", "l", "-">>
ModelSafetensors == <<"m", "o", "d", "e", "l", ".", "s", "a", "f", "e", "t", "e", "n", "s", "o", "r", "s">>
WeightsNpz == <<"w", "e", "i", "g", "h", "t", "s", ".", "n", "p", "z">>
ExtPart == <<".", "p", "a", "r", "t">>

\* a weight shard and a file outside the allow-list, as a catalog lists them
ShardSafetensors == <<"m", "o", "d", "e", "l", "-", "1", ".", "s", "a", "f", "e", "t", "e", "n", "s", "o", "r", "s">>
ReadmeMd == <<"R", "E", "A", "D", "M", "E", ".", "m", "d">>

internalDirs == { <<"b", "l", "o", "b", "s">>,
                  <<"m", "a", "n", "i", "f", "e", "s", "t", "s">>,
                  <<"m", "l", "x">>,
                  <<"o", "l", "l", "a", "m", "a">> }

\* envconfig.Models(): the storage root
modelsDir == << <<"m", "o", "d", "e", "l", "s">> >>

----------------------------------------------------------------------------
(* the filesystem: path -> DIR or file size *)

DIR == -1

Exists(f, path) == path \in DOMAIN f

IsDir(f, path) == Exists(f, path) /\ f[path] = DIR

IsUnder(path, root) ==
    /\ Len(root) <= Len(path)
    /\ SubSeq(path, 1, Len(root)) = root

Parent(path) == IF Len(path) = 0 THEN path ELSE SubSeq(path, 1, Len(path) - 1)

\* filepath.Join(dir, elem) for an elem without separator: the result is cleaned
FilepathJoin(dir, elem) ==
    IF elem = <<>> \/ elem = <<".">> THEN dir
    ELSE IF elem = <<".", ".">> THEN Parent(dir)
    ELSE Append(dir, elem)

\* os.RemoveAll: the path and everything below it; no error if it is absent
RemoveAll(f, path) == [q \in {r \in DOMAIN f : ~IsUnder(r, path)} |-> f[q]]

\* os.RemoveAll fails when a directory on the way to the path is a regular file;
\* a path that does not exist is no error
RemoveAllErr(f, path) ==
    \E k \in 1..(Len(path) - 1) :
        LET pre == SubSeq(path, 1, k) IN Exists(f, pre) /\ f[pre] # DIR

\* os.MkdirAll succeeds iff no prefix of the path is a regular file
MkdirAllOK(f, path) ==
    \A k \in 1..Len(path) :
        LET pre == SubSeq(path, 1, k) IN Exists(f, pre) => f[pre] = DIR

MkdirAll(f, path) ==
    LET pres == {SubSeq(path, 1, k) : k \in 1..Len(path)}
    IN  [q \in DOMAIN f \cup pres |-> IF q \in DOMAIN f THEN f[q] ELSE DIR]

\* os.Remove of a regular file
Remove(f, path) == [q \in DOMAIN f \ {path} |-> f[q]]

\* size of the regular file at path, 0 bytes when it is created
WriteSize(f, path, size) == [q \in DOMAIN f \cup {path} |-> IF q = path THEN size ELSE f[q]]

\* os.Rename(from, to) of a regular file, replacing the target
Rename(f, from, to) ==
    [q \in (DOMAIN f \ {from}) \cup {to} |-> IF q = to THEN f[from] ELSE f[q]]

\* os.ReadDir: names of the direct children
ReadDir(f, path) == {q[Len(q)] : q \in {r \in DOMAIN f : Len(r) = Len(path) + 1 /\ IsUnder(r, path)}}

----------------------------------------------------------------------------
(* the artifact store *)

GetModelPath(modelName) ==
    LET localName == ReplaceAll(modelName, "/", "_")
    IN  FilepathJoin(modelsDir, localName)

ModelExists(f, modelName) ==
    LET modelPath == GetModelPath(modelName)
        configPath == FilepathJoin(modelPath, ConfigJSON)
        safetensorsPath == FilepathJoin(modelPath, ModelSafetensors)
        weightsPath == FilepathJoin(modelPath, WeightsNpz)
    IN  IF ~Exists(f, configPath) THEN FALSE
        ELSE Exists(f, safetensorsPath) \/ Exists(f, weightsPath)

\* GetModelInfo fails only when the model path cannot be stat'ed
GetModelInfoOK(f, modelName) == Exists(f, GetModelPath(modelName))

\* mutant: the internal directories are not skipped
ListModels_NoInternalSkip(f) ==
    IF ~IsDir(f, modelsDir) THEN {}
    ELSE { FilepathJoin(modelsDir, name) : name \in
             { e \in ReadDir(f, modelsDir) :
                  /\ IsDir(f, Append(modelsDir, e))
                  /\ ModelExists(f, e)
                  /\ GetModelInfoOK(f, e) } }

\* the LocalPath of every listed model
ListModels(f) ==
    IF ~IsDir(f, modelsDir) THEN {}
    ELSE { FilepathJoin(modelsDir, name) : name \in
             { e \in ReadDir(f, modelsDir) :
                  /\ IsDir(f, Append(modelsDir, e))
                  /\ e \notin internalDirs
                  /\ ModelExists(f, e)
                  /\ GetModelInfoOK(f, e) } }

\* mutant: the whole store is removed with the model
DeleteModel_WholeStore(f, modelName) == RemoveAll(f, modelsDir)

\* mutant: the model directory is emptied and left in place
DeleteModel_LeavesEmptyDir(f, modelName) ==
    MkdirAll(RemoveAll(f, GetModelPath(modelName)), GetModelPath(modelName))

DeleteModel(f, modelName) == RemoveAll(f, GetModelPath(modelName))

\* the error DeleteModel returns, that of os.RemoveAll
DeleteModelErr(f, modelName) == RemoveAllErr(f, GetModelPath(modelName))

shouldDownloadFile(name) ==
    LET lower == ToLower(name)
    IN  \/ lower \in { ConfigJSON, TokenizerJSON, TokenizerConfigJSON, GenerationConfigJSON,
                       SpecialTokensMapJSON, TokenizerModel, PreprocessorConfigJSON,
                       ChatTemplateJSON, AddedTokensJSON, VocabJSON, MergesTxt }
        \/ HasSuffix(lower, ExtNpz)
        \/ HasSuffix(lower, ExtSafetensors) \/ HasSuffix(lower, ExtSafetensorsIndex)
        \/ (HasPrefix(lower, ShardPrefix) /\ Contains(lower, ExtSafetensors))

----------------------------------------------------------------------------
(* the remote catalog and file server *)

Sibling(name, size, lfs) == [rfilename |-> name, size |-> size, lfs |-> lfs]

\* sibling lists the metadata endpoint may answer with (hfModelInfo.Siblings)
Catalogs ==
    { << Sibling(ConfigJSON, 1, 0), Sibling(ModelSafetensors, 0, 3) >>,
      << Sibling(ConfigJSON, 1, 0), Sibling(ModelSafetensors, 0, 3),
         Sibling(TokenizerJSON, 1, 0) >>,
      << Sibling(TokenizerJSON, 0, 0), Sibling(ModelSafetensors, 2, 3),
         Sibling(ReadmeMd, 1, 0), Sibling(ConfigJSON, 1, 0) >>,
      << Sibling(ConfigJSON, 1, 0), Sibling(NoName, 1, 0),
         Sibling(ShardSafetensors, 0, 2) >>,
      << Sibling(ConfigJSON, 1, 0), Sibling(ModelSafetensors, 2, 0) >>,
      << Sibling(ReadmeMd, 1, 0) >> }

\* size of the file the server serves under a name
RemoteSize(name) ==
    IF name = ModelSafetensors THEN 3
    ELSE IF name \in {ShardSafetensors, WeightsNpz} THEN 2
    ELSE 1

\* answers of the file server to a request with the given Range start (0: none);
\* status 0 stands for client.Do returning an error instead of a response
HTTPStatuses == {0, 200, 206, 401, 403, 416, 500}

ServerAnswers(name, range, nreq) ==
    { st \in HTTPStatuses :
        /\ st = 206 => (range > 0 /\ range < RemoteSize(name))
        /\ st = 416 => nreq < MaxRequests }

\* bytes of the response body
ServerBody(name, status, range) ==
    IF status = 206 THEN RemoteSize(name) - range ELSE RemoteSize(name)

----------------------------------------------------------------------------
(* fetchHFFileList: the allow-listed siblings, in catalog order *)

RECURSIVE FilterSiblings(_)
FilterSiblings(sibs) ==
    IF sibs = <<>> THEN <<>>
    ELSE LET sib == Head(sibs)
             rest == FilterSiblings(Tail(sibs))
         IN  IF sib.rfilename = NoName THEN rest
             ELSE IF ~shouldDownloadFile(sib.rfilename) THEN rest
             ELSE <<sib>> \o rest

\* mutant: the raw size is taken whenever it is known
SiblingSize_RawFirst(sib) == IF sib.size > 0 THEN sib.size ELSE sib.lfs

SiblingSize(sib) == IF sib.lfs > 0 THEN sib.lfs ELSE sib.size

fetchHFFileList(sibs) ==
    LET kept == FilterSiblings(sibs)
    IN  IF Len(kept) = 0
        THEN [err |-> TRUE, files |-> <<>>, sizes |-> <<>>]
        ELSE [err |-> FALSE,
              files |-> [i \in 1..Len(kept) |-> kept[i].rfilename],
              sizes |-> [i \in 1..Len(kept) |->
                           \* sizes[name]: a later entry of the same name overwrites
                           LET last == CHOOSE j \in 1..Len(kept) :
                                          /\ kept[j].rfilename = kept[i].rfilename
                                          /\ \A k \in (j+1)..Len(kept) :
                                                kept[k].rfilename # kept[i].rfilename
                           IN  SiblingSize(kept[last])]]

\* the legacy file list used when the catalog fails; sizes unknown
LegacyFiles == <<ConfigJSON, TokenizerJSON, TokenizerConfigJSON, ModelSafetensors, WeightsNpz>>

LegacySizes == [i \in 1..Len(LegacyFiles) |-> 0]

----------------------------------------------------------------------------
(* DownloadMLXModel: one record per caller *)

Procs == {1, 2}

\* the identifiers the callers ask for: "a/b" and "f"
IdAB == <<"a", "/", "b">>
IdF == <<"f">>
Ids == {IdAB, IdF}

IdleRec ==
    [pc |-> "idle", id |-> NoName, files |-> <<>>, sizes |-> <<>>, idx |-> 0,
     cancelled |-> FALSE, cleanup |-> FALSE, existingSize |-> 0, resuming |-> FALSE,
     downloaded |-> 0, body |-> 0, range |-> 0, fileReqs |-> 0, netReqs |-> 0,
     complete0 |-> FALSE, resumed |-> FALSE, manifestErr |-> FALSE,
     entry |-> <<>>, exit |-> <<>>, status |-> 0, fileErr |-> "none", result |-> "none"]

\* the last call on the store and what it returned
NoOut == [op |-> "none", arg |-> NoName, listed |-> {}, exists |-> FALSE,
          removed |-> {}, err |-> FALSE]

\* no file carries a modification time or content, no credential is configured
NoMeta == <<>>

NoEnv == <<>>

\* no worker process has been asked for
NoRun == <<>>

NoHist == [path |-> <<>>, name |-> NoName, n |-> 0, kind |-> "none", crashes |-> 0]

InFlight(d) == d.pc \in {"fetch", "loop", "await", "reading"}

modelPath(d) == GetModelPath(d.id)

filename(d) == d.files[d.idx]

expectedSize(d) == d.sizes[d.idx]

destPath(d) == FilepathJoin(modelPath(d), filename(d))

PartOf(dest) == [dest EXCEPT ![Len(dest)] = @ \o ExtPart]

tmpPath(d) == PartOf(destPath(d))

\* every manifest file is at its destination with its declared size, which is known
AllComplete(f, d) ==
    \A i \in 1..Len(d.files) :
        LET dest == FilepathJoin(modelPath(d), d.files[i])
        IN  d.sizes[i] > 0 /\ Exists(f, dest) /\ f[dest] = d.sizes[i]

\* the destination and the partial file of the current file, as far as they exist
Snapshot(f, d) == [q \in {destPath(d), tmpPath(d)} \cap DOMAIN f |-> f[q]]

\* fields of one file transfer, cleared between files
ClearFile(d) ==
    [d EXCEPT !.existingSize = 0, !.resuming = FALSE, !.downloaded = 0, !.body = 0,
              !.range = 0, !.fileReqs = 0, !.entry = <<>>, !.status = 0]

\* the interruption an invocation ends with, kept for the next invocation
Interrupted(d, f, kind) ==
    IF d.pc = "reading" /\ Exists(f, tmpPath(d)) /\ f[tmpPath(d)] > 0
    THEN [path |-> modelPath(d), name |-> filename(d), n |-> f[tmpPath(d)], kind |-> kind,
          crashes |-> hist.crashes]
    ELSE [NoHist EXCEPT !.crashes = hist.crashes]

\* mutant: the deferred cleanup is missing
ReturnErr_NoCleanup(f, d, kind) ==
    [fs |-> f,
     d  |-> [ClearFile(d) EXCEPT !.pc = "done",
                                 !.entry = d.entry, !.exit = Snapshot(f, d),
                                 !.status = d.status, !.fileErr = kind,
                                 !.result = IF d.cancelled THEN "ctx"
                                            ELSE IF kind = "status" THEN "transfer"
                                            ELSE kind]]

\* mutant: the error of the file is returned without looking at ctx.Err()
ReturnErr_NoCtxErr(f, d, kind) ==
    [fs |-> IF d.cleanup THEN RemoveAll(f, modelPath(d)) ELSE f,
     d  |-> [ClearFile(d) EXCEPT !.pc = "done",
                                 !.entry = d.entry, !.exit = Snapshot(f, d),
                                 !.status = d.status, !.fileErr = kind,
                                 !.result = IF kind = "status" THEN "transfer" ELSE kind]]

\* mutant: after a failing file the loop goes on with the next one
ReturnErr_Continues(f, d, kind) ==
    [fs |-> f, d |-> [ClearFile(d) EXCEPT !.pc = "loop", !.idx = d.idx + 1]]

\* DownloadMLXModel returns err: the deferred cleanup removes the model directory
ReturnErr(f, d, kind) ==
    [fs |-> IF d.cleanup THEN RemoveAll(f, modelPath(d)) ELSE f,
     d  |-> [ClearFile(d) EXCEPT !.pc = "done",
                                 !.entry = d.entry, !.exit = Snapshot(f, d),
                                 !.status = d.status, !.fileErr = kind,
                                 !.result = IF d.cancelled THEN "ctx"
                                            ELSE IF kind = "status" THEN "transfer"
                                            ELSE kind]]

\* downloadFileWithSize returned nil for the current file: the loop goes on
FileDone(f, d) ==
    [fs |-> f, d |-> [ClearFile(d) EXCEPT !.pc = "loop", !.idx = d.idx + 1]]

\* mutant: a partial file larger than the expected size is kept and resumed
BeginFile_KeepOversized(f, d) ==
    LET dest == destPath(d)
        tmp == tmpPath(d)
        expectSize == expectedSize(d)
    IN  IF ~MkdirAllOK(f, Parent(dest)) THEN ReturnErr(f, d, "transfer")
        ELSE LET f1 == MkdirAll(f, Parent(dest))
             IN  IF Exists(f1, dest) /\ expectSize > 0 /\ f1[dest] = expectSize
                 THEN FileDone(f1, d)
                 ELSE IF Exists(f1, tmp) /\ expectSize > 0 /\ f1[tmp] = expectSize
                 THEN FileDone(Rename(f1, tmp, dest), d)
                 ELSE LET existingSize == IF Exists(f1, tmp) THEN f1[tmp] ELSE 0
                      IN  [fs |-> f1,
                           d  |-> [d EXCEPT !.pc = "await",
                                            !.existingSize = existingSize,
                                            !.range = existingSize,
                                            !.resuming = FALSE,
                                            !.downloaded = 0,
                                            !.fileReqs = d.fileReqs + 1,
                                            !.netReqs = d.netReqs + 1]]

\* mutant: a destination file of the expected size is requested again
BeginFile_NoSkip(f, d) ==
    LET dest == destPath(d)
        tmp == tmpPath(d)
        expectSize == expectedSize(d)
    IN  IF ~MkdirAllOK(f, Parent(dest)) THEN ReturnErr(f, d, "transfer")
        ELSE LET f1 == MkdirAll(f, Parent(dest))
             IN  IF Exists(f1, tmp) /\ expectSize > 0 /\ f1[tmp] = expectSize
                 THEN FileDone(Rename(f1, tmp, dest), d)
                 ELSE LET over == Exists(f1, tmp) /\ expectSize > 0 /\ f1[tmp] > expectSize
                          existingSize == IF Exists(f1, tmp) /\ ~over THEN f1[tmp] ELSE 0
                      IN  [fs |-> IF over THEN Remove(f1, tmp) ELSE f1,
                           d  |-> [d EXCEPT !.pc = "await",
                                            !.existingSize = existingSize,
                                            !.range = existingSize,
                                            !.resuming = FALSE,
                                            !.downloaded = 0,
                                            !.fileReqs = d.fileReqs + 1,
                                            !.netReqs = d.netReqs + 1]]

\* downloadFileWithSize up to client.Do: skip, adopt the partial file, or request
BeginFile(f, d) ==
    LET dest == destPath(d)
        tmp == tmpPath(d)
        expectSize == expectedSize(d)
    IN  IF ~MkdirAllOK(f, Parent(dest)) THEN ReturnErr(f, d, "transfer")
        ELSE LET f1 == MkdirAll(f, Parent(dest))
             IN  IF Exists(f1, dest) /\ expectSize > 0 /\ f1[dest] = expectSize
                 THEN FileDone(f1, d)
                 ELSE IF Exists(f1, tmp) /\ expectSize > 0 /\ f1[tmp] = expectSize
                 THEN FileDone(Rename(f1, tmp, dest), d)
                 ELSE LET over == Exists(f1, tmp) /\ expectSize > 0 /\ f1[tmp] > expectSize
                          existingSize == IF Exists(f1, tmp) /\ ~over THEN f1[tmp] ELSE 0
                      IN  [fs |-> IF over THEN Remove(f1, tmp) ELSE f1,
                           d  |-> [d EXCEPT !.pc = "await",
                                            !.existingSize = existingSize,
                                            !.range = existingSize,
                                            !.resuming = FALSE,
                                            !.downloaded = 0,
                                            !.fileReqs = d.fileReqs + 1,
                                            !.netReqs = d.netReqs + 1]]

\* mutant: on 200 the stale partial file is kept and the body appended to it
OnStatus_KeepStalePartial(f, d, st) ==
    LET tmp == tmpPath(d)
    IN  CASE st = 0 -> ReturnErr(f, d, "transfer")
          [] st \in {401, 403} -> ReturnErr(f, d, "auth")
          [] st \in {200, 206} ->
                IF ~IsDir(f, Parent(tmp)) THEN ReturnErr(f, d, "transfer")
                ELSE [fs |-> IF Exists(f, tmp) THEN f ELSE WriteSize(f, tmp, 0),
                      d  |-> [d EXCEPT !.pc = "reading", !.resuming = (st = 206),
                                       !.resumed = (d.resumed \/ st = 206),
                                       !.downloaded = IF st = 206 THEN d.existingSize ELSE 0,
                                       !.body = ServerBody(filename(d), st, d.range)]]
          [] st = 416 -> BeginFile(Remove(f, tmp), d)
          [] OTHER -> ReturnErr(f, d, "status")

\* mutant: a 401 or 403 answer leaves an empty partial file behind
OnStatus_AuthTruncates(f, d, st) ==
    LET tmp == tmpPath(d)
    IN  CASE st = 0 -> ReturnErr(f, d, "transfer")
          [] st \in {401, 403} -> ReturnErr(WriteSize(f, tmp, 0), d, "auth")
          [] st = 206 ->
                IF ~Exists(f, tmp) THEN ReturnErr(f, d, "transfer")
                ELSE [fs |-> f,
                      d  |-> [d EXCEPT !.pc = "reading", !.resuming = TRUE,
                                       !.resumed = TRUE,
                                       !.downloaded = d.existingSize,
                                       !.body = ServerBody(filename(d), st, d.range)]]
          [] st = 200 ->
                IF ~IsDir(f, Parent(tmp)) THEN ReturnErr(f, d, "transfer")
                ELSE [fs |-> WriteSize(f, tmp, 0),
                      d  |-> [d EXCEPT !.pc = "reading", !.resuming = FALSE,
                                       !.downloaded = 0,
                                       !.body = ServerBody(filename(d), st, d.range)]]
          [] st = 416 -> BeginFile(Remove(f, tmp), d)
          [] OTHER -> ReturnErr(f, d, "status")

\* the response headers arrived: the switch on resp.StatusCode
OnStatus(f, d, st) ==
    LET tmp == tmpPath(d)
    IN  CASE st = 0 -> ReturnErr(f, d, "transfer")
          [] st \in {401, 403} -> ReturnErr(f, d, "auth")
          [] st = 206 ->
                IF ~Exists(f, tmp) THEN ReturnErr(f, d, "transfer")
                ELSE [fs |-> f,
                      d  |-> [d EXCEPT !.pc = "reading", !.resuming = TRUE,
                                       !.resumed = TRUE,
                                       !.downloaded = d.existingSize,
                                       !.body = ServerBody(filename(d), st, d.range)]]
          [] st = 200 ->
                IF ~IsDir(f, Parent(tmp)) THEN ReturnErr(f, d, "transfer")
                ELSE [fs |-> WriteSize(f, tmp, 0),
                      d  |-> [d EXCEPT !.pc = "reading", !.resuming = FALSE,
                                       !.downloaded = 0,
                                       !.body = ServerBody(filename(d), st, d.range)]]
          [] st = 416 -> BeginFile(Remove(f, tmp), d)
          [] OTHER -> ReturnErr(f, d, "status")

\* mutant: the body is written straight into the destination name
OnRead_IntoDestination(f, d, n) ==
    LET dest == destPath(d)
    IN  [fs |-> WriteSize(f, dest, (IF Exists(f, dest) THEN f[dest] ELSE 0) + n),
         d  |-> [d EXCEPT !.downloaded = d.downloaded + n, !.body = d.body - n]]

\* one Read of the body returned n > 0 bytes, written to the partial file
OnRead(f, d, n) ==
    LET tmp == tmpPath(d)
    IN  [fs |-> IF Exists(f, tmp) THEN WriteSize(f, tmp, f[tmp] + n) ELSE f,
         d  |-> [d EXCEPT !.downloaded = d.downloaded + n, !.body = d.body - n]]

\* mutant: at io.EOF the partial file is dropped and the file counted as done
OnEOF_DropsFile(f, d) == FileDone(Remove(f, tmpPath(d)), d)

\* Read returned io.EOF: the partial file is renamed into place
OnEOF(f, d) ==
    IF ~Exists(f, tmpPath(d)) THEN ReturnErr(f, d, "transfer")
    ELSE FileDone(Rename(f, tmpPath(d), destPath(d)), d)

----------------------------------------------------------------------------
(* actions of the downloader *)

Apply(p, r) ==
    /\ fs' = r.fs
    /\ dl' = [dl EXCEPT ![p] = r.d]

EndHist(d) ==
    hist' = IF d.pc = "done" THEN [NoHist EXCEPT !.crashes = hist.crashes] ELSE hist

\* DownloadMLXModel is called: the model directory is created, the cleanup deferred
\* and the manifest request sent
Start(p, id) ==
    /\ dl[p].pc \in {"idle", "done"}
    /\ LET d == [IdleRec EXCEPT !.id = id]
       IN  IF ~MkdirAllOK(fs, modelPath(d))
           THEN /\ dl' = [dl EXCEPT ![p] = [d EXCEPT !.pc = "done", !.result = "mkdir"]]
                /\ fs' = fs
           ELSE /\ dl' = [dl EXCEPT ![p] = [d EXCEPT !.pc = "fetch", !.cleanup = TRUE,
                                                     !.netReqs = 1]]
                /\ fs' = MkdirAll(fs, modelPath(d))
    /\ UNCHANGED <<hist, out, meta, env, run>>

\* fetchHFFileList answered: a manifest, or the legacy list on any error
Fetch(p) ==
    /\ dl[p].pc = "fetch"
    /\ \E answered \in (IF dl[p].cancelled THEN {FALSE} ELSE BOOLEAN), siblings \in Catalogs :
          LET got == IF ~answered
                     THEN [err |-> TRUE, files |-> <<>>, sizes |-> <<>>]
                     ELSE fetchHFFileList(siblings)
              d0 == [dl[p] EXCEPT !.pc = "loop", !.idx = 1, !.manifestErr = got.err,
                                  !.files = IF got.err THEN LegacyFiles ELSE got.files,
                                  !.sizes = IF got.err THEN LegacySizes ELSE got.sizes]
          IN  dl' = [dl EXCEPT ![p] = [d0 EXCEPT !.complete0 = AllComplete(fs, d0)]]
    /\ UNCHANGED <<fs, hist, out, meta, env, run>>

\* the head of the loop over the files: ctx.Err(), then downloadFileWithSize
NextFile(p) ==
    /\ dl[p].pc = "loop"
    /\ dl[p].idx <= Len(dl[p].files)
    /\ LET r == IF dl[p].cancelled THEN ReturnErr(fs, dl[p], "ctx")
                ELSE BeginFile(fs, [dl[p] EXCEPT !.entry = Snapshot(fs, dl[p])])
       IN  Apply(p, r) /\ EndHist(r.d)
    /\ UNCHANGED <<out, meta, env, run>>

\* all files are in place: cleanup = false, return nil
Finish(p) ==
    /\ dl[p].pc = "loop"
    /\ dl[p].idx > Len(dl[p].files)
    /\ dl' = [dl EXCEPT ![p] = [ClearFile(dl[p]) EXCEPT !.pc = "done", !.cleanup = FALSE,
                                                        !.result = "ok"]]
    /\ hist' = [NoHist EXCEPT !.crashes = hist.crashes]
    /\ UNCHANGED <<fs, out, meta, env, run>>

\* client.Do returns: a response, or an error (always, once the context is cancelled)
Respond(p) ==
    /\ dl[p].pc = "await"
    /\ \E st \in (IF dl[p].cancelled THEN {0}
                  ELSE ServerAnswers(filename(dl[p]), dl[p].range, dl[p].fileReqs)) :
          LET r == OnStatus(fs, [dl[p] EXCEPT !.status = st], st)
          IN  Apply(p, r) /\ EndHist(r.d)
    /\ UNCHANGED <<out, meta, env, run>>

\* resp.Body.Read returns data
ReadData(p) ==
    /\ dl[p].pc = "reading"
    /\ ~dl[p].cancelled
    /\ \E n \in 1..Min(MaxChunk, dl[p].body) : Apply(p, OnRead(fs, dl[p], n))
    /\ UNCHANGED <<hist, out, meta, env, run>>

\* resp.Body.Read returns io.EOF
ReadEOF(p) ==
    /\ dl[p].pc = "reading"
    /\ ~dl[p].cancelled
    /\ dl[p].body = 0
    /\ LET r == OnEOF(fs, dl[p]) IN Apply(p, r) /\ EndHist(r.d)
    /\ UNCHANGED <<out, meta, env, run>>

\* resp.Body.Read returns an error: the connection broke, or the context was cancelled
ReadErr(p) ==
    /\ dl[p].pc = "reading"
    /\ Apply(p, ReturnErr(fs, dl[p], "transfer"))
    /\ hist' = IF dl[p].cancelled THEN [NoHist EXCEPT !.crashes = hist.crashes]
               ELSE Interrupted(dl[p], fs, "readerr")
    /\ UNCHANGED <<out, meta, env, run>>

\* the caller cancels the context of its call
Cancel(p) ==
    /\ InFlight(dl[p])
    /\ ~dl[p].cancelled
    /\ dl' = [dl EXCEPT ![p].cancelled = TRUE]
    /\ UNCHANGED <<fs, hist, out, meta, env, run>>

\* the process is killed: no deferred function runs, the files stay as they are
Crash ==
    /\ \E p \in Procs : InFlight(dl[p])
    /\ hist.crashes < MaxCrashes
    /\ dl' = [p \in Procs |-> IdleRec]
    /\ hist' = [Interrupted(dl[1], fs, "crash") EXCEPT !.crashes = hist.crashes + 1]
    /\ UNCHANGED <<fs, out, meta, env, run>>

Init ==
    /\ fs = [q \in {modelsDir, FilepathJoin(modelsDir, IdF)} |->
                IF q = modelsDir THEN DIR ELSE 0]
    /\ dl = [p \in Procs |-> IdleRec]
    /\ hist = NoHist
    /\ run = NoRun
    /\ out = NoOut
    /\ meta = NoMeta
    /\ env = NoEnv

Next ==
    \/ \E id \in Ids : Start(1, id)
    \/ Fetch(1)
    \/ NextFile(1)
    \/ Finish(1)
    \/ Respond(1)
    \/ ReadData(1)
    \/ ReadEOF(1)
    \/ ReadErr(1)
    \/ Cancel(1)
    \/ Crash

Spec == Init /\ [][Next]_vars

----------------------------------------------------------------------------
(* Claims about DownloadMLXModel, checked under Spec *)

Returned(d) == d.pc = "done"

DestOf(d, i) == FilepathJoin(modelPath(d), d.files[i])

\* C1: whenever DownloadMLXModel returns an error, the artifact directory of the
\* id has been removed before it returns (unless the directory could not even be
\* created), and ModelExists(id) is false right afterwards.
C1_ErrorRemovesArtifact ==
    \A p \in Procs :
        Returned(dl[p]) /\ dl[p].result # "ok" =>
            /\ ~ModelExists(fs, dl[p].id)
            /\ dl[p].result \in {"ctx", "auth", "transfer"} =>
                  \A q \in DOMAIN fs : ~IsUnder(q, modelPath(dl[p]))

\* C1 witness: a download failed on its second file, after the first was written
C1_Witness ==
    /\ Returned(dl[1]) /\ dl[1].result = "transfer" /\ dl[1].idx = 2
    /\ dl[1].files[1] = ConfigJSON

\* C2: while a download of an id is in progress and some manifest file is not yet
\* at its destination, ModelExists(id) is false and ListModels does not contain
\* the artifact.
C2_PartialNeverUsable ==
    \A p \in Procs :
        /\ dl[p].pc \in {"loop", "await", "reading"}
        /\ \E i \in 1..Len(dl[p].files) : ~Exists(fs, DestOf(dl[p], i))
        => /\ ~ModelExists(fs, dl[p].id)
           /\ modelPath(dl[p]) \notin ListModels(fs)

\* C3: if DownloadMLXModel returns nil, ModelExists(id) is true right afterwards,
\* for every manifest of allow-listed files and for the legacy list.
C3_SuccessImpliesExists ==
    \A p \in Procs :
        Returned(dl[p]) /\ dl[p].result = "ok" => ModelExists(fs, dl[p].id)

\* C4: after an invocation that completes, whatever interruptions came before it,
\* every manifest file whose declared size T is the size of the served file is at
\* its destination with exactly T bytes.
C4_ResumeFinalSize ==
    \A p \in Procs :
        Returned(dl[p]) /\ dl[p].result = "ok" =>
            \A i \in 1..Len(dl[p].files) :
                dl[p].sizes[i] > 0 /\ dl[p].sizes[i] = RemoteSize(dl[p].files[i]) =>
                    /\ Exists(fs, DestOf(dl[p], i))
                    /\ fs[DestOf(dl[p], i)] = dl[p].sizes[i]

\* C4 witness: an invocation interrupted in the weights file left a partial file,
\* the next one resumed it with a range request and completed with 3 of 3 bytes
C4_Witness ==
    /\ Returned(dl[1]) /\ dl[1].result = "ok" /\ dl[1].resumed
    /\ hist.crashes >= 1
    /\ \E i \in 1..Len(dl[1].files) :
          /\ dl[1].files[i] = ModelSafetensors /\ dl[1].sizes[i] = 3
          /\ Exists(fs, DestOf(dl[1], i)) /\ fs[DestOf(dl[1], i)] = 3

\* C5: the invocation that follows one interrupted by a read error after N > 0
\* bytes of a file (N below the declared size, if that is known) requests that
\* file with a Range starting at byte N.
C5_NextInvocationResumes ==
    \A p \in Procs :
        /\ hist.kind = "readerr"
        /\ dl[p].pc \in {"await", "reading"}
        /\ modelPath(dl[p]) = hist.path
        /\ filename(dl[p]) = hist.name
        /\ expectedSize(dl[p]) = 0 \/ hist.n < expectedSize(dl[p])
        /\ dl[p].fileReqs = 1
        => dl[p].range = hist.n

\* C6 as stated: a download of an artifact whose manifest files are all in place
\* with their declared sizes issues no network request at all, changes no file
\* and reports completion.
C6_ZeroNetworkRequests ==
    \A p \in Procs :
        dl[p].complete0 =>
            /\ dl[p].netReqs = 0
            /\ AllComplete(fs, dl[p])
            /\ Returned(dl[p]) => dl[p].result = "ok"

\* C6 amended: once the manifest request has shown every manifest file in place
\* with its declared size (> 0), an invocation that is not cancelled issues no
\* file request (the manifest request stays its only request), changes no file
\* and returns nil.
C6_CompleteArtifactNoFileRequest ==
    [][\A p \in Procs :
          dl[p].complete0 /\ dl'[p].complete0 /\ ~dl'[p].cancelled =>
              /\ fs' = fs
              /\ dl[p].netReqs = 1 /\ dl'[p].netReqs = 1
              /\ dl'[p].pc \in {"loop", "done"}
              /\ Returned(dl'[p]) => dl'[p].result = "ok"]_vars

\* C6 witness: such an invocation returned nil over an artifact of three files
C6_Witness ==
    /\ Returned(dl[1]) /\ dl[1].complete0 /\ ~dl[1].cancelled /\ dl[1].result = "ok"
    /\ Len(dl[1].files) = 3

\* C7: after a 416 the file is requested once more and never a third time.
C7_RetryOnceAfter416 == \A p \in Procs : dl[p].fileReqs <= 2

----------------------------------------------------------------------------
(* The store alone: any small store root, and the calls on it *)

\* entry names and contained files the store root is drawn from
StoreNames == { <<"a", "_", "b">>, <<"m", "l", "x">>, <<"x">> }

StoreFiles == {ConfigJSON, ModelSafetensors, WeightsNpz, ShardSafetensors}

StoreIds == StoreNames \cup {IdAB}

\* an entry of the root: a regular file, or a directory holding some files
EntryFS(name, isFile, files) ==
    LET path == Append(modelsDir, name)
    IN  IF isFile THEN [q \in {path} |-> 0]
        ELSE [q \in {path} \cup {Append(path, x) : x \in files} |->
                 IF q = path THEN DIR ELSE 1]

Stores ==
    { [q \in {modelsDir} \cup UNION {DOMAIN EntryFS(n, c[n][1], c[n][2]) : n \in names} |->
          IF q = modelsDir THEN DIR
          ELSE LET n == CHOOSE m \in names : q \in DOMAIN EntryFS(m, c[m][1], c[m][2])
               IN  EntryFS(n, c[n][1], c[n][2])[q]] :
      <<names, c>> \in
          UNION { {<<ns, k>> : k \in [ns -> BOOLEAN \X SUBSET StoreFiles]} :
                  ns \in {x \in SUBSET StoreNames : Cardinality(x) <= MaxEntries} } }
        \cup { [q \in {modelsDir} |-> 0] }

StoreInit ==
    /\ fs \in Stores
    /\ dl = [p \in Procs |-> IdleRec]
    /\ hist = NoHist
    /\ run = NoRun
    /\ out = NoOut
    /\ meta = NoMeta
    /\ env = NoEnv

CallModelExists(id) ==
    /\ out' = [NoOut EXCEPT !.op = "ModelExists", !.arg = id,
                             !.exists = ModelExists(fs, id)]
    /\ UNCHANGED <<fs, dl, hist, meta, env, run>>

CallListModels ==
    /\ out' = [NoOut EXCEPT !.op = "ListModels", !.listed = ListModels(fs)]
    /\ UNCHANGED <<fs, dl, hist, meta, env, run>>

CallDeleteModel(id) ==
    /\ fs' = DeleteModel(fs, id)
    /\ out' = [NoOut EXCEPT !.op = "DeleteModel", !.arg = id,
                             !.removed = DOMAIN fs \ DOMAIN DeleteModel(fs, id),
                             !.err = DeleteModelErr(fs, id)]
    /\ UNCHANGED <<dl, hist, meta, env, run>>

StoreNext ==
    \/ \E id \in StoreIds : CallModelExists(id)
    \/ CallListModels
    \/ \E id \in StoreIds : CallDeleteModel(id)

StoreSpec == StoreInit /\ [][StoreNext]_vars

----------------------------------------------------------------------------
(* Claims about the store, checked under StoreSpec *)

\* the weight forms of the two accepted layouts: the consolidated file, or the
\* alternate-format file or a shard of sharded weights
RecognizedWeightForm(name) ==
    \/ name = ModelSafetensors
    \/ name = WeightsNpz
    \/ HasPrefix(name, ShardPrefix) /\ Contains(name, ExtSafetensors)

\* C9: ModelExists(id) is true iff the artifact directory holds config.json and a
\* weight file of a recognized form, consolidated or sharded/alternate-format.
C9_ExistsIffDescriptorAndWeights ==
    out.op = "ModelExists" =>
        (out.exists <=>
            /\ Exists(fs, Append(GetModelPath(out.arg), ConfigJSON))
            /\ \E name \in ReadDir(fs, GetModelPath(out.arg)) : RecognizedWeightForm(name))

\* C10: ListModels returns exactly the directories of the store root whose name
\* is not blobs, manifests, mlx or ollama and for which ModelExists holds.
C10_ListedExactly ==
    out.op = "ListModels" =>
        out.listed =
            { Append(modelsDir, e) : e \in
                { n \in ReadDir(fs, modelsDir) :
                     /\ fs[Append(modelsDir, n)] = DIR
                     /\ n \notin { <<"b", "l", "o", "b", "s">>,
                                   <<"m", "a", "n", "i", "f", "e", "s", "t", "s">>,
                                   <<"m", "l", "x">>, <<"o", "l", "l", "a", "m", "a">> }
                     /\ ModelExists(fs, n) } }

\* C10 witness: a_b is listed while the directory mlx, a complete model too, is not
C10_Witness ==
    /\ out.op = "ListModels"
    /\ out.listed = {Append(modelsDir, <<"a", "_", "b">>)}
    /\ ModelExists(fs, <<"m", "l", "x">>)

----------------------------------------------------------------------------
(* computeDigest: a hash over the relative path and size of every file *)

\* the characters of the file names below, in ascending byte order
ByteOrder ==
    <<"\n", ".", "/", "0", "1", "2", "3", "4", "5", "6", "7", "8", "9", ":", "_">>
        \o LowerChars

CharOrd(c) == CHOOSE i \in 1..Len(ByteOrder) : ByteOrder[i] = c

\* s < t as Go compares strings: byte by byte, a proper prefix first
StrLess(s, t) ==
    \E k \in 1..Len(t) :
        /\ k - 1 <= Len(s)
        /\ SubSeq(s, 1, k - 1) = SubSeq(t, 1, k - 1)
        /\ (k > Len(s) \/ CharOrd(s[k]) < CharOrd(t[k]))

\* names in the lexical order filepath.Walk visits them in
RECURSIVE SortNames(_)
SortNames(S) ==
    IF S = {} THEN <<>>
    ELSE LET least == CHOOSE x \in S : \A y \in S \ {x} : StrLess(x, y)
         IN  <<least>> \o SortNames(S \ {least})

Digits == <<"0", "1", "2", "3", "4", "5", "6", "7", "8", "9">>

\* the verb %d for a size
RECURSIVE FormatInt(_)
FormatInt(n) ==
    IF n < 10 THEN <<Digits[n + 1]>>
    ELSE FormatInt(n \div 10) \o <<Digits[(n % 10) + 1]>>

\* filepath.Walk: the regular files below path, directories in lexical order
RECURSIVE WalkFrom(_, _, _)
RECURSIVE Walk(_, _)
WalkFrom(f, path, names) ==
    IF names = <<>> THEN <<>>
    ELSE Walk(f, Append(path, Head(names))) \o WalkFrom(f, path, Tail(names))

Walk(f, path) ==
    IF IsDir(f, path) THEN WalkFrom(f, path, SortNames(ReadDir(f, path)))
    ELSE <<path>>

\* filepath.Rel(root, path) for a path below root
RECURSIVE JoinSlash(_)
JoinSlash(elems) ==
    IF Len(elems) = 0 THEN <<>>
    ELSE IF Len(elems) = 1 THEN elems[1]
    ELSE elems[1] \o <<"/">> \o JoinSlash(Tail(elems))

Rel(root, path) == JoinSlash(SubSeq(path, Len(root) + 1, Len(path)))

\* what one file contributes: "%s:%d\n" of its relative path and size
DigestLine(f, root, path) == Rel(root, path) \o <<":">> \o FormatInt(f[path]) \o <<"\n">>

RECURSIVE FoldLines(_, _, _)
FoldLines(f, root, paths) ==
    IF paths = <<>> THEN <<>>
    ELSE DigestLine(f, root, Head(paths)) \o FoldLines(f, root, Tail(paths))

\* the bytes written to the hash
DigestInput(f, root) == FoldLines(f, root, Walk(f, root))

\* sha256, taken as collision-free: the digest stands for the bytes hashed
Sha256(bytes) == <<"sha256:", bytes>>

\* what one file contributes when its modification time is folded in too
RECURSIVE FoldLinesModTime(_, _, _, _)
FoldLinesModTime(f, m, root, paths) ==
    IF paths = <<>> THEN <<>>
    ELSE DigestLine(f, root, Head(paths)) \o FormatInt(m[Head(paths)].modTime)
            \o FoldLinesModTime(f, m, root, Tail(paths))

\* mutant: the modification time of every file is hashed as well
computeDigest_WithModTime(f, m, root) ==
    IF ~Exists(f, root) THEN [err |-> TRUE, digest |-> <<>>]
    ELSE [err |-> FALSE, digest |-> Sha256(FoldLinesModTime(f, m, root, Walk(f, root)))]

\* computeDigest(root): f holds the sizes, m the modification times and contents
computeDigest(f, m, root) ==
    IF ~Exists(f, root) THEN [err |-> TRUE, digest |-> <<>>]
    ELSE [err |-> FALSE, digest |-> Sha256(DigestInput(f, root))]

----------------------------------------------------------------------------
(* computeDigest run twice over a model directory that is edited in between *)

DigestRoot == GetModelPath(<<"x">>)

NpzA == <<"a">> \o ExtNpz
NpzB == <<"b">> \o ExtNpz
\* one file name that reads like two lines of the hashed text
NpzAB == NpzA \o <<":", "1", "\n">> \o NpzB

DigestSizes == {1, 12}

DigestFilePaths ==
    { Append(DigestRoot, NpzA), Append(DigestRoot, NpzB), Append(DigestRoot, NpzAB),
      DigestRoot \o << <<"s">>, NpzA >> }

\* the regular files of f with their sizes
FileSizes(f) == [q \in {r \in DOMAIN f : f[r] # DIR} |-> f[q]]

\* a filesystem holding the model directory with the given files
DirWith(sizes) ==
    LET dirs == UNION { {SubSeq(q, 1, k) : k \in 1..(Len(q) - 1)} : q \in DOMAIN sizes }
                    \cup {modelsDir, DigestRoot}
    IN  [q \in dirs \cup DOMAIN sizes |-> IF q \in dirs THEN DIR ELSE sizes[q]]

DigestDirs == { DirWith(sizes) : sizes \in UNION { [P -> DigestSizes] : P \in SUBSET DigestFilePaths } }

FreshMeta == [modTime |-> 0, content |-> 0]

NoDigest == [err |-> FALSE, digest |-> <<>>]

NoDigestOut == [op |-> "none", seen |-> <<>>, result |-> NoDigest, again |-> NoDigest]

DigestInit ==
    /\ fs \in DigestDirs
    /\ meta = [q \in DOMAIN FileSizes(fs) |-> FreshMeta]
    /\ out = NoDigestOut
    /\ dl = [p \in Procs |-> IdleRec]
    /\ hist = NoHist
    /\ run = NoRun
    /\ env = NoEnv

\* the first run of computeDigest over the directory
CallComputeDigest ==
    /\ out.op = "none"
    /\ out' = [NoDigestOut EXCEPT !.op = "first", !.seen = FileSizes(fs),
                                  !.result = computeDigest(fs, meta, DigestRoot)]
    /\ UNCHANGED <<fs, meta, dl, hist, env, run>>

\* a later run of computeDigest over the same root
CallComputeDigestAgain ==
    /\ out.op = "first"
    /\ out' = [out EXCEPT !.op = "second", !.again = computeDigest(fs, meta, DigestRoot)]
    /\ UNCHANGED <<fs, meta, dl, hist, env, run>>

\* between the runs a file is created or changes its size
WriteFile(path, size) ==
    /\ out.op = "first"
    /\ ~(Exists(fs, path) /\ fs[path] = size)
    /\ fs' = WriteSize(MkdirAll(fs, Parent(path)), path, size)
    /\ meta' = [q \in DOMAIN meta \cup {path} |->
                   IF q = path THEN [modTime |-> 1, content |-> 1] ELSE meta[q]]
    /\ UNCHANGED <<out, dl, hist, env, run>>

\* between the runs a file is rewritten with other content of the same size
RewriteFile(path) ==
    /\ out.op = "first"
    /\ Exists(fs, path)
    /\ meta' = [meta EXCEPT ![path] = [modTime |-> 1, content |-> 1]]
    /\ UNCHANGED <<fs, out, dl, hist, env, run>>

\* between the runs a file is removed
RemoveFile(path) ==
    /\ out.op = "first"
    /\ Exists(fs, path)
    /\ fs' = Remove(fs, path)
    /\ meta' = [q \in DOMAIN meta \ {path} |-> meta[q]]
    /\ UNCHANGED <<out, dl, hist, env, run>>

DigestNext ==
    \/ CallComputeDigest
    \/ CallComputeDigestAgain
    \/ \E path \in DigestFilePaths, size \in DigestSizes : WriteFile(path, size)
    \/ \E path \in DigestFilePaths : RewriteFile(path)
    \/ \E path \in DigestFilePaths : RemoveFile(path)

DigestSpec == DigestInit /\ [][DigestNext]_vars

----------------------------------------------------------------------------
(* Claims about computeDigest, checked under DigestSpec *)

\* C11: two states of the directory that differ in the set of file names or in the
\* size of a file give different digests
C11_DigestChangesWithNamesAndSizes ==
    (out.op = "second" /\ FileSizes(fs) # out.seen) => out.again # out.result

\* C12: the digest depends on the relative paths and sizes only: a second run over
\* a directory with the same names and sizes, whatever happened to contents and
\* modification times, returns the digest of the first run
C12_DigestOfNamesAndSizesOnly ==
    (out.op = "second" /\ FileSizes(fs) = out.seen) => out.again = out.result

\* a second run over a non-empty directory whose names and sizes are those of the
\* first run while a file was rewritten in between
C12_Witness ==
    /\ out.op = "second"
    /\ FileSizes(fs) = out.seen
    /\ ~out.again.err
    /\ \E q \in DOMAIN meta : meta[q].content # FreshMeta.content

----------------------------------------------------------------------------
(* More claims about the store, checked under StoreSpec *)

\* C13: DeleteModel is idempotent: deleting an id whose directory does not exist
\* returns no error and changes nothing, deleting the same id a second time
\* changes nothing, and after any delete ModelExists(id) is false
C13_DeleteIdempotent ==
    [][\A id \in StoreIds :
          CallDeleteModel(id) =>
              /\ ~IsDir(fs, GetModelPath(id)) => (~out'.err /\ fs' = fs)
              /\ (out.op = "DeleteModel" /\ out.arg = id) => (~out'.err /\ fs' = fs)
              /\ ~ModelExists(fs', id)]_vars

\* the root of the store is a directory (os.MkdirAll in NewMLXModelManager fails,
\* unnoticed, when a regular file has its name)
RootIsDir(f) == IsDir(f, modelsDir)

\* C13 as the code has it: in a store whose root is a directory, deleting an id at
\* whose path nothing exists returns no error and changes nothing, and deleting
\* the same id a second time returns no error and changes nothing; after any
\* delete ModelExists(id) is false
C13_DeleteIdempotentWhenAbsent ==
    [][\A id \in StoreIds :
          CallDeleteModel(id) =>
              /\ (RootIsDir(fs) /\ ~Exists(fs, GetModelPath(id))) => (~out'.err /\ fs' = fs)
              /\ (RootIsDir(fs) /\ out.op = "DeleteModel" /\ out.arg = id) =>
                     (~out'.err /\ fs' = fs)
              /\ ~ModelExists(fs', id)]_vars

\* a delete that found nothing at its path and left another model in the store
C13_Witness ==
    /\ out.op = "DeleteModel"
    /\ out.removed = {}
    /\ ~out.err
    /\ \E n \in StoreNames : ModelExists(fs, n)

----------------------------------------------------------------------------
(* toDisplayName: from the directory name back to the identifier shown *)

\* the organisation prefixes toDisplayName converts, in the order it tries them
KnownPrefixes ==
    << <<"m", "l", "x", "-", "c", "o", "m", "m", "u", "n", "i", "t", "y", "_">>,
       <<"h", "u", "g", "g", "i", "n", "g", "f", "a", "c", "e", "_">>,
       <<"m", "e", "t", "a", "-", "l", "l", "a", "m", "a", "_">>,
       <<"m", "i", "s", "t", "r", "a", "l", "a", "i", "_">>,
       <<"Q", "w", "e", "n", "_">>,
       <<"g", "o", "o", "g", "l", "e", "_">>,
       <<"m", "i", "c", "r", "o", "s", "o", "f", "t", "_">> >>

TrimSuffix(s, suffix) ==
    IF HasSuffix(s, suffix) THEN SubSeq(s, 1, Len(s) - Len(suffix)) ELSE s

TrimPrefix(s, prefix) ==
    IF HasPrefix(s, prefix) THEN SubSeq(s, Len(prefix) + 1, Len(s)) ELSE s

\* mutant: every underscore of a name with a known prefix becomes a slash
RECURSIVE toDisplayNameFrom_AllUnderscores(_, _)
toDisplayNameFrom_AllUnderscores(fsName, prefixes) ==
    IF prefixes = <<>> THEN fsName
    ELSE IF HasPrefix(fsName, Head(prefixes)) THEN ReplaceAll(fsName, "_", "/")
    ELSE toDisplayNameFrom_AllUnderscores(fsName, Tail(prefixes))

\* the loop over the prefixes: the first that matches decides
RECURSIVE toDisplayNameFrom(_, _)
toDisplayNameFrom(fsName, prefixes) ==
    IF prefixes = <<>> THEN fsName
    ELSE IF HasPrefix(fsName, Head(prefixes))
         THEN LET org == TrimSuffix(Head(prefixes), <<"_">>)
                  model == TrimPrefix(fsName, Head(prefixes))
              IN  org \o <<"/">> \o model
    ELSE toDisplayNameFrom(fsName, Tail(prefixes))

toDisplayName(fsName) == toDisplayNameFrom(fsName, KnownPrefixes)

\* the name of the directory GetModelPath gives an identifier
LocalName(modelName) == GetModelPath(modelName)[Len(GetModelPath(modelName))]

\* identifiers: an organisation, known or not, a separator and a model name, or a
\* model name alone
NameOrgs ==
    { TrimSuffix(KnownPrefixes[i], <<"_">>) : i \in 1..Len(KnownPrefixes) }
        \cup { <<"q", "w", "e", "n">>, <<"o", "r", "g">>, <<"g", "o", "o", "g", "l">> }

NameModels == { <<"x">>, <<"a", "/", "b">>, <<"a", "_", "b">>, <<>> }

NameIds ==
    { org \o sep \o model : org \in NameOrgs, sep \in {<<"/">>, <<"_">>}, model \in NameModels }
        \cup (NameModels \ {<<>>})

NoNameOut == [op |-> "none", id |-> NoName, localName |-> NoName, display |-> NoName]

NameInit ==
    /\ out \in { [NoNameOut EXCEPT !.id = id] : id \in NameIds }
    /\ fs = [q \in {modelsDir} |-> DIR]
    /\ dl = [p \in Procs |-> IdleRec]
    /\ hist = NoHist
    /\ run = NoRun
    /\ meta = NoMeta
    /\ env = NoEnv

\* the identifier is stored under GetModelPath and listed under toDisplayName
CallToDisplayName ==
    /\ out.op = "none"
    /\ out' = [out EXCEPT !.op = "display", !.localName = LocalName(out.id),
                          !.display = toDisplayName(LocalName(out.id))]
    /\ UNCHANGED <<fs, dl, hist, meta, env, run>>

NameNext == CallToDisplayName

NameSpec == NameInit /\ [][NameNext]_vars

----------------------------------------------------------------------------
(* Claims about the path round trip, checked under NameSpec *)

\* the identifier starts with a known organisation and a slash
UsesKnownNamespace(id) ==
    \E i \in 1..Len(KnownPrefixes) :
        HasPrefix(id, TrimSuffix(KnownPrefixes[i], <<"_">>) \o <<"/">>)

\* C14: an identifier with a known namespace prefix comes back unchanged from
\* GetModelPath followed by toDisplayName; for any other identifier toDisplayName
\* returns the sanitized directory name unchanged
C14_PathRoundTrip ==
    out.op = "display" =>
        IF UsesKnownNamespace(out.id) THEN out.display = out.id
        ELSE out.display = out.localName

\* the part of the identifier after its known organisation and slash
ModelPart(id) ==
    LET i == CHOOSE k \in 1..Len(KnownPrefixes) :
                 HasPrefix(id, TrimSuffix(KnownPrefixes[k], <<"_">>) \o <<"/">>)
    IN  SubSeq(id, Len(KnownPrefixes[i]) + 1, Len(id))

\* C14 as the code has it: an identifier made of a known namespace prefix, one
\* slash and a model name without slash comes back unchanged from GetModelPath
\* followed by toDisplayName; an identifier whose sanitized directory name does not
\* start with a known prefix and an underscore gets that name back unchanged
C14_PathRoundTripSingleSlash ==
    out.op = "display" =>
        /\ (UsesKnownNamespace(out.id) /\ ~Contains(ModelPart(out.id), <<"/">>))
              => out.display = out.id
        /\ (\A i \in 1..Len(KnownPrefixes) : ~HasPrefix(out.localName, KnownPrefixes[i]))
              => out.display = out.localName

\* google/a_b was stored as google_a_b and is displayed as google/a_b again
C14_Witness ==
    /\ out.op = "display"
    /\ out.id = <<"g", "o", "o", "g", "l", "e", "/", "a", "_", "b">>
    /\ out.localName # out.id
    /\ out.display = out.id

----------------------------------------------------------------------------
(* fetchHFFileList over the sibling lists a repository may have *)

\* longest sibling list drawn
MaxSiblings == 2

TokenizerJSONUpper == <<"T", "o", "k", "e", "n", "i", "z", "e", "r", ".", "J", "S", "O", "N">>

\* names a sibling may carry: allow-listed, not allow-listed, empty
SiblingNames ==
    { ConfigJSON, ModelSafetensors, ShardSafetensors, TokenizerJSONUpper, ReadmeMd, NoName }

\* a sibling with its raw size and its large-file size, 0 when the field is missing
SiblingPool ==
    { Sibling(name, size, lfs) : name \in SiblingNames, size \in {0, 1}, lfs \in {0, 3} }

\* the file list of a repository: no path is listed twice
SiblingLists ==
    UNION { { sibs \in [1..n -> SiblingPool] :
                \A i, j \in 1..n : i # j => sibs[i].rfilename # sibs[j].rfilename } :
            n \in 0..MaxSiblings }

NoManifestOut == [op |-> "none", siblings |-> <<>>, err |-> FALSE, files |-> <<>>, sizes |-> <<>>]

ManifestInit ==
    /\ out \in { [NoManifestOut EXCEPT !.siblings = sibs] : sibs \in SiblingLists }
    /\ fs = [q \in {modelsDir} |-> DIR]
    /\ dl = [p \in Procs |-> IdleRec]
    /\ hist = NoHist
    /\ run = NoRun
    /\ meta = NoMeta
    /\ env = NoEnv

\* the metadata endpoint answered 200 with the sibling list
CallFetchHFFileList ==
    /\ out.op = "none"
    /\ LET got == fetchHFFileList(out.siblings)
       IN  out' = [out EXCEPT !.op = "manifest", !.err = got.err, !.files = got.files,
                              !.sizes = got.sizes]
    /\ UNCHANGED <<fs, dl, hist, meta, env, run>>

ManifestNext == CallFetchHFFileList

ManifestSpec == ManifestInit /\ [][ManifestNext]_vars

----------------------------------------------------------------------------
(* Claims about the manifest, checked under ManifestSpec *)

AllowListed(sib) == shouldDownloadFile(sib.rfilename)

\* C15: manifest resolution returns, in catalog order, exactly the siblings whose
\* name passes the allow-list, each with its large-file size when it has one and
\* its raw size otherwise, and fails iff no sibling passes
C15_ManifestIsFilteredCatalog ==
    out.op = "manifest" =>
        LET passing == SelectSeq(out.siblings, AllowListed)
        IN  /\ out.err <=> (Len(passing) = 0)
            /\ ~out.err =>
                  /\ out.files = [i \in 1..Len(passing) |-> passing[i].rfilename]
                  /\ out.sizes = [i \in 1..Len(passing) |->
                                     IF passing[i].lfs > 0 THEN passing[i].lfs
                                     ELSE passing[i].size]

\* a manifest that dropped a sibling and took the large-file size over the raw one
C15_Witness ==
    /\ out.op = "manifest"
    /\ ~out.err
    /\ Len(out.files) < Len(out.siblings)
    /\ \E i \in 1..Len(out.siblings) :
          /\ out.siblings[i].size = 1
          /\ out.siblings[i].lfs = 3
          /\ out.files = <<out.siblings[i].rfilename>>
          /\ out.sizes = <<3>>

----------------------------------------------------------------------------
(* More claims about DownloadMLXModel, checked under Spec *)

\* C16: a catalog error (unreachable, non-200, malformed, nothing downloadable)
\* is returned to the caller of the download as that error, and no file request
\* follows it
C16_CatalogErrorSurfaces ==
    \A p \in Procs :
        dl[p].manifestErr =>
            /\ dl[p].netReqs <= 1
            /\ Returned(dl[p]) => dl[p].result = "manifest"

----------------------------------------------------------------------------
(* the HuggingFace token of a request *)

WhiteSpace == {" ", "\n", "\t"}

\* strings.TrimSpace
RECURSIVE TrimLeft(_)
TrimLeft(s) == IF s # <<>> /\ Head(s) \in WhiteSpace THEN TrimLeft(Tail(s)) ELSE s

RECURSIVE TrimRight(_)
TrimRight(s) ==
    IF s # <<>> /\ s[Len(s)] \in WhiteSpace THEN TrimRight(SubSeq(s, 1, Len(s) - 1)) ELSE s

TrimSpace(s) == TrimRight(TrimLeft(s))

\* the environment variables read, in the order they are tried
EnvKeys == <<"HUGGINGFACEHUB_API_TOKEN", "HUGGING_FACE_HUB_TOKEN", "HF_TOKEN">>

\* getHFToken: the content of ~/.ollmlx/hf_token, "" when it cannot be read
getHFToken(e) ==
    IF ~e.home THEN <<>>
    ELSE IF ~e.tokenFile.exists THEN <<>>
    ELSE TrimSpace(e.tokenFile.data)

\* the loop over the environment variables
RECURSIVE FirstEnvToken(_, _)
FirstEnvToken(e, keys) ==
    IF keys = <<>> THEN <<>>
    ELSE LET tok == TrimSpace(e.vars[Head(keys)])
         IN  IF tok # <<>> THEN tok ELSE FirstEnvToken(e, Tail(keys))

\* mutant: the environment is asked before the credential file
ResolveToken_EnvFirst(e) ==
    LET token == FirstEnvToken(e, EnvKeys)
    IN  IF token = <<>> THEN getHFToken(e) ELSE token

\* the token of a request: the stored one, else the first set in the environment
ResolveToken(e) ==
    LET token == getHFToken(e)
    IN  IF token = <<>> THEN FirstEnvToken(e, EnvKeys) ELSE token

Bearer == <<"B", "e", "a", "r", "e", "r", " ">>

\* the Authorization header of a request, set only for a token
Authorization(e) ==
    LET token == ResolveToken(e)
    IN  IF token # <<>> THEN [set |-> TRUE, value |-> Bearer \o token]
        ELSE [set |-> FALSE, value |-> <<>>]

\* contents of the credential file and values of a variable: nothing, white space
\* only, a token, a token within white space
TokenFiles ==
    { [exists |-> FALSE, data |-> <<>>], [exists |-> TRUE, data |-> <<"\n">>],
      [exists |-> TRUE, data |-> <<"f", "\n">>], [exists |-> TRUE, data |-> <<"f">>] }

EnvValues(key) ==
    LET k == CHOOSE i \in 1..Len(EnvKeys) : EnvKeys[i] = key
    IN  { <<>>, <<" ">>, <<Digits[k + 1]>>, <<" ", Digits[k + 1], " ">> }

Environments ==
    { [home |-> h, tokenFile |-> t, vars |-> v] :
        h \in BOOLEAN, t \in TokenFiles,
        v \in { w \in [{EnvKeys[i] : i \in 1..Len(EnvKeys)} ->
                          UNION {EnvValues(EnvKeys[i]) : i \in 1..Len(EnvKeys)}] :
                  \A i \in 1..Len(EnvKeys) : w[EnvKeys[i]] \in EnvValues(EnvKeys[i]) } }

NoAuthOut == [op |-> "none", header |-> [set |-> FALSE, value |-> <<>>]]

AuthInit ==
    /\ env \in Environments
    /\ out = NoAuthOut
    /\ fs = [q \in {modelsDir} |-> DIR]
    /\ dl = [p \in Procs |-> IdleRec]
    /\ hist = NoHist
    /\ run = NoRun
    /\ meta = NoMeta

\* fetchHFFileList builds the manifest request
ManifestRequest ==
    /\ out' = [op |-> "manifest", header |-> Authorization(env)]
    /\ UNCHANGED <<fs, dl, hist, meta, env, run>>

\* downloadFileWithSize builds a file request
FileRequest ==
    /\ out' = [op |-> "file", header |-> Authorization(env)]
    /\ UNCHANGED <<fs, dl, hist, meta, env, run>>

AuthNext == ManifestRequest \/ FileRequest

AuthSpec == AuthInit /\ [][AuthNext]_vars

----------------------------------------------------------------------------
(* Claims about the token, checked under AuthSpec *)

\* the token stored in the credential file, none when there is no readable file
StoredToken == IF env.home /\ env.tokenFile.exists THEN TrimSpace(env.tokenFile.data) ELSE <<>>

\* C17: the token of a request is the stored credential-file token if it is
\* non-empty, otherwise the first non-empty value among HUGGINGFACEHUB_API_TOKEN,
\* HUGGING_FACE_HUB_TOKEN, HF_TOKEN in that order, otherwise none; a token is sent
\* as bearer credential with the manifest request and every file request, and no
\* Authorization header is sent without one
C17_TokenResolution ==
    out.op \in {"manifest", "file"} =>
        LET set == {i \in 1..Len(EnvKeys) : env.vars[EnvKeys[i]] # <<>>}
            first == CHOOSE i \in set : \A j \in set : i <= j
            token == IF StoredToken # <<>> THEN StoredToken
                     ELSE IF set # {} THEN env.vars[EnvKeys[first]]
                     ELSE <<>>
        IN  IF token # <<>> THEN out.header = [set |-> TRUE, value |-> Bearer \o token]
            ELSE ~out.header.set

\* C17 as the code has it: values count without their surrounding white space, so
\* the token is the stored one if that leaves it non-empty, otherwise the first of
\* the three variables, in that order, whose value is not white space only,
\* otherwise none; a token is sent as bearer credential with the manifest request
\* and every file request, and no Authorization header is sent without one
C17_TokenResolutionTrimmed ==
    out.op \in {"manifest", "file"} =>
        LET set == {i \in 1..Len(EnvKeys) : TrimSpace(env.vars[EnvKeys[i]]) # <<>>}
            first == CHOOSE i \in set : \A j \in set : i <= j
            token == IF StoredToken # <<>> THEN StoredToken
                     ELSE IF set # {} THEN TrimSpace(env.vars[EnvKeys[first]])
                     ELSE <<>>
        IN  IF token # <<>> THEN out.header = [set |-> TRUE, value |-> Bearer \o token]
            ELSE ~out.header.set

\* a file request that carries the second variable's token: the credential file
\* holds a newline only and the first variable is not set
C17_Witness ==
    /\ out.op = "file"
    /\ env.home /\ env.tokenFile.exists /\ env.tokenFile.data = <<"\n">>
    /\ env.vars["HUGGINGFACEHUB_API_TOKEN"] = <<>>
    /\ env.vars["HF_TOKEN"] # <<>>
    /\ out.header = [set |-> TRUE, value |-> Bearer \o <<"2">>]

\* the last response of the file that failed carried a status the switch rejects
FailedOnStatus(d) == Returned(d) /\ d.status \notin {0, 200, 206, 416}

\* C18: a 401 or 403 response fails the file with the authentication error, any
\* status other than 200, 206, 416, 401 and 403 fails it with an error naming the
\* status, and the file operation has created or modified neither the destination
\* nor the partial file
C18_FailingStatusTouchesNoFile ==
    \A p \in Procs :
        FailedOnStatus(dl[p]) =>
            /\ dl[p].fileErr = IF dl[p].status \in {401, 403} THEN "auth" ELSE "status"
            /\ dl[p].exit = dl[p].entry

\* C18 as the code has it: a 401 or 403 response fails the file with the
\* authentication error, any status other than 200, 206, 416, 401 and 403 fails it
\* with an error naming the status, and the file operation has neither created nor
\* rewritten the destination or the partial file; the one change it may have made
\* is the removal of a partial file before the failing request was sent
C18_FailingStatusWritesNoFile ==
    \A p \in Procs :
        FailedOnStatus(dl[p]) =>
            /\ dl[p].fileErr = IF dl[p].status \in {401, 403} THEN "auth" ELSE "status"
            /\ \A q \in DOMAIN dl[p].exit :
                  q \in DOMAIN dl[p].entry /\ dl[p].exit[q] = dl[p].entry[q]
            /\ \A q \in DOMAIN dl[p].entry :
                  q \notin DOMAIN dl[p].exit => q = PartOf(DestOf(dl[p], dl[p].idx))

\* a request resuming a partial file was answered 403: the file failed and the
\* partial file was as it had been
C18_Witness ==
    /\ Returned(dl[1])
    /\ dl[1].status = 403
    /\ dl[1].fileErr = "auth"
    /\ dl[1].entry # <<>>
    /\ dl[1].exit = dl[1].entry

----------------------------------------------------------------------------
(* The health wait of the runner supervisor: waitForMLXRunner.  Time is counted
   in ticks of 250 ms from the call of the function. *)

\* time.After(500 * time.Millisecond): the pause between two polls, in ticks
PollInterval == 2

\* time.Now().Add(30 * time.Second): the deadline of the wait, in ticks
HealthDeadline == 120

\* the longest time client.Get may take before it returns, in ticks (the timeout
\* of the http.Client the caller passes in)
MaxPollTicks == 2

\* a worker that never answers /health with 200, and one that may
HealthWorkers == {"never", "starts"}

\* what one client.Get can come back with: 200, another status, a transport error
PollOutcomes(worker) ==
    {"status503", "refused", "clientTimeout"} \cup (IF worker = "starts" THEN {"ok"} ELSE {})

\* the wait at its call: deadline := time.Now().Add(30 * time.Second); var lastErr error;
\* lastFail is what the last failed client.Get came back with, detail what the
\* returned error carries of it
WaitStart(worker) ==
    [pc |-> "loop", now |-> 0, deadline |-> HealthDeadline, worker |-> worker,
     pollStart |-> 0, wake |-> 0, lastErr |-> "none", lastStatus |-> 0, polls |-> 0,
     cancelled |-> FALSE, cancelAt |-> 0, result |-> "running", detail |-> "none",
     lastFail |-> "none"]

\* the wait has returned to its caller
WaitReturned(r) == r.pc = "done"

\* the return after the loop: the last transport error wrapped, else the bare text
AfterLoop(r) ==
    IF r.lastErr # "none"
    THEN [r EXCEPT !.pc = "done", !.result = "failedAfter", !.detail = r.lastErr]
    ELSE [r EXCEPT !.pc = "done", !.result = "notHealthy"]

\* for time.Now().Before(deadline) { resp, err := client.Get(url)
LoopHead ==
    /\ run.pc = "loop"
    /\ run' = IF run.now < run.deadline
              THEN [run EXCEPT !.pc = "get", !.pollStart = run.now, !.polls = Min(run.polls + 1, 2)]
              ELSE AfterLoop(run)
    /\ UNCHANGED <<fs, dl, hist, out, meta, env>>

\* the body of the loop once client.Get has returned: 200 returns nil, a transport
\* error is kept in lastErr, another status is only logged; then the select begins
PollReturns ==
    /\ run.pc = "get"
    /\ \E o \in PollOutcomes(run.worker) :
          /\ o = "clientTimeout" => run.now - run.pollStart = MaxPollTicks
          /\ run' = CASE o = "ok" -> [run EXCEPT !.pc = "done", !.result = "nil"]
                      [] o = "status503" ->
                            [run EXCEPT !.pc = "select", !.lastStatus = 503,
                                        !.lastFail = o, !.wake = run.now + PollInterval]
                      [] OTHER ->
                            [run EXCEPT !.pc = "select", !.lastErr = o,
                                        !.lastFail = o, !.wake = run.now + PollInterval]
    /\ UNCHANGED <<fs, dl, hist, out, meta, env>>

\* case <-time.After(500 * time.Millisecond): back to the loop condition
SelectTimer ==
    /\ run.pc = "select"
    /\ run.now >= run.wake
    /\ run' = [run EXCEPT !.pc = "loop"]
    /\ UNCHANGED <<fs, dl, hist, out, meta, env>>

\* case <-ctx.Done(): return ctx.Err()
SelectDone ==
    /\ run.pc = "select"
    /\ run.cancelled
    /\ run' = [run EXCEPT !.pc = "done", !.result = "ctx"]
    /\ UNCHANGED <<fs, dl, hist, out, meta, env>>

\* the caller cancels the context, or the context's own deadline passes
CancelCtx ==
    /\ ~WaitReturned(run)
    /\ ~run.cancelled
    /\ run' = [run EXCEPT !.cancelled = TRUE, !.cancelAt = run.now]
    /\ UNCHANGED <<fs, dl, hist, out, meta, env>>

\* a tick passes while client.Get is under way or the select is blocked; the loop
\* condition and a ready select take no time
Tick ==
    /\ \/ run.pc = "get" /\ run.now - run.pollStart < MaxPollTicks
       \/ run.pc = "select" /\ run.now < run.wake /\ ~run.cancelled
    /\ run' = [run EXCEPT !.now = run.now + 1]
    /\ UNCHANGED <<fs, dl, hist, out, meta, env>>

HealthInit ==
    /\ run \in {WaitStart(w) : w \in HealthWorkers}
    /\ fs = [q \in {modelsDir} |-> DIR]
    /\ dl = [p \in Procs |-> IdleRec]
    /\ hist = NoHist
    /\ out = NoOut
    /\ meta = NoMeta
    /\ env = NoEnv

HealthNext == LoopHead \/ PollReturns \/ SelectTimer \/ SelectDone \/ CancelCtx \/ Tick

HealthSpec == HealthInit /\ [][HealthNext]_vars

----------------------------------------------------------------------------
(* Claims about the health wait, checked under HealthSpec *)

\* the wait failed on its own deadline
HealthTimeout(r) == WaitReturned(r) /\ r.result \in {"failedAfter", "notHealthy"}

\* C20: against a worker whose /health never returns success the wait fails on
\* its deadline no earlier than the deadline D and no later than D plus one poll
\* interval P, and it never reports the worker healthy
C20_HealthTimeoutBound ==
    /\ HealthTimeout(run) =>
          /\ run.now >= HealthDeadline
          /\ run.now <= HealthDeadline + PollInterval
    /\ (run.worker = "never" /\ WaitReturned(run)) => run.result # "nil"

----------------------------------------------------------------------------
(* The supervisor of the worker process: generateMLXModel.  run maps each
   generation request to the position of its handler. *)

\* the generation requests served at the same time
Handles == {1, 2}

\* the model names the requests carry: a repository id, its local name, a name
\* that is not in the store
RunnerModels == {IdAB, <<"a", "_", "b">>, <<"x">>}

\* the stores the requests run against: empty, or holding a_b with some files
RunnerStores ==
    { f \in Stores :
        DOMAIN f \subseteq {modelsDir} \cup DOMAIN EntryFS(<<"a", "_", "b">>, FALSE, StoreFiles) }

\* mutant: every request gets the same directory
RunnerDir_Fixed(h) ==
    << <<"t", "m", "p">>,
       <<"o", "l", "l", "m", "l", "x", "-", "r", "u", "n", "n", "e", "r", "-", "1">> >>

\* the directory os.MkdirTemp("", "ollmlx-runner-*") makes for a request: a fresh
\* name under the temporary directory
RunnerDir(h) ==
    << <<"t", "m", "p">>,
       <<"o", "l", "l", "m", "l", "x", "-", "r", "u", "n", "n", "e", "r", "-">>
           \o (IF h = 1 THEN <<"1">> ELSE <<"2">>) >>

\* time.Sleep(2 * time.Second), in ticks of 250 ms
SleepTicks == 8

\* a handler that has not been entered; proc is the command the handler starts
\* (go run), worker the runner that command builds and runs as its child,
\* modelArg what the command gets as -model, loadArg what the load command
\* names (the handler sends none), cancelled whether the caller has gone away,
\* waited the ticks slept since then
IdleHandle ==
    [pc |-> "idle", model |-> NoName, localName |-> NoName, modelArg |-> <<>>,
     loadArg |-> <<>>, status |-> 0, proc |-> "none", worker |-> "none",
     cancelled |-> FALSE, waited |-> 0]

\* the handler has returned
Served(r) == r.pc = "done"

\* entry of the handler: localName := strings.ReplaceAll(req.Model, "/", "_")
Generate(h, model) ==
    /\ run[h].pc = "idle"
    /\ run' = [run EXCEPT ![h] = [@ EXCEPT !.pc = "exists", !.model = model,
                                           !.localName = ReplaceAll(model, "/", "_")]]
    /\ UNCHANGED <<fs, dl, hist, out, meta, env>>

\* mutant: only the directory of the model is looked for
CheckModel_DirectoryOnly(h) ==
    /\ run[h].pc = "exists"
    /\ run' = [run EXCEPT ![h] =
                 IF ~GetModelInfoOK(fs, run[h].localName)
                 THEN [@ EXCEPT !.pc = "done", !.status = 404]
                 ELSE [@ EXCEPT !.pc = "mktemp", !.modelArg = GetModelPath(run[h].localName)]]
    /\ UNCHANGED <<fs, dl, hist, out, meta, env>>

\* manager.ModelExists(localName), manager.GetModelInfo(localName) and
\* manager.GetModelPath(localName): 404 when the model is not there, 500 when its
\* information cannot be read
CheckModel(h) ==
    /\ run[h].pc = "exists"
    /\ run' = [run EXCEPT ![h] =
                 IF ~ModelExists(fs, run[h].localName)
                 THEN [@ EXCEPT !.pc = "done", !.status = 404]
                 ELSE IF ~GetModelInfoOK(fs, run[h].localName)
                      THEN [@ EXCEPT !.pc = "done", !.status = 500]
                      ELSE [@ EXCEPT !.pc = "mktemp", !.modelArg = GetModelPath(run[h].localName)]]
    /\ UNCHANGED <<fs, dl, hist, out, meta, env>>

\* runnerDir, err := os.MkdirTemp(...); defer os.RemoveAll(runnerDir)
MkdirTemp(h) ==
    /\ run[h].pc = "mktemp"
    /\ \E ok \in BOOLEAN :
          IF ok
          THEN /\ fs' = MkdirAll(fs, RunnerDir(h))
               /\ run' = [run EXCEPT ![h] = [@ EXCEPT !.pc = "start"]]
          ELSE /\ fs' = fs
               /\ run' = [run EXCEPT ![h] = [@ EXCEPT !.pc = "done", !.status = 500]]
    /\ UNCHANGED <<dl, hist, out, meta, env>>

\* cmd.Start() of "go run ./runner/mlxrunner/runner.go -model modelPath -port 0":
\* on an error the handler answers 500 and returns through the deferred removal
CmdStart(h) ==
    /\ run[h].pc = "start"
    /\ \E ok \in BOOLEAN :
          run' = [run EXCEPT ![h] =
                    IF ok THEN [@ EXCEPT !.pc = "sleep", !.proc = "running"]
                    ELSE [@ EXCEPT !.pc = "defer", !.status = 500]]
    /\ UNCHANGED <<fs, dl, hist, out, meta, env>>

\* time.Sleep(2 * time.Second) is over
Sleep(h) ==
    /\ run[h].pc = "sleep"
    /\ run' = [run EXCEPT ![h] = [@ EXCEPT !.pc = "respond", !.waited = 0]]
    /\ UNCHANGED <<fs, dl, hist, out, meta, env>>

\* the caller of the request goes away while the handler waits for the worker:
\* the context of the request is cancelled, the handler does not look at it
CallerCancels(h) ==
    /\ run[h].pc = "sleep"
    /\ ~run[h].cancelled
    /\ run' = [run EXCEPT ![h] = [@ EXCEPT !.cancelled = TRUE]]
    /\ UNCHANGED <<fs, dl, hist, out, meta, env>>

\* a tick of 250 ms of the sleep passes after the cancellation
SleepTick(h) ==
    /\ run[h].pc = "sleep"
    /\ run[h].cancelled
    /\ run[h].waited < SleepTicks
    /\ run' = [run EXCEPT ![h] = [@ EXCEPT !.waited = @ + 1]]
    /\ UNCHANGED <<fs, dl, hist, out, meta, env>>

\* c.JSON(http.StatusOK, ...): the fixed answer, "done": true
PlaceholderAnswer(h) ==
    /\ run[h].pc = "respond"
    /\ run' = [run EXCEPT ![h] = [@ EXCEPT !.pc = "kill", !.status = 200]]
    /\ UNCHANGED <<fs, dl, hist, out, meta, env>>

\* cmd.Process.Kill(): SIGKILL to the process the handler started, which is "go
\* run"; the signal cannot be passed on, so a runner that "go run" has started
\* as its child runs on.  A process that is gone already makes Kill fail, and the
\* error is dropped
ProcessKill(h) ==
    /\ run[h].pc = "kill"
    /\ run' = [run EXCEPT ![h] = [@ EXCEPT !.pc = "defer",
                  !.proc = IF @ = "running" THEN "killed" ELSE @]]
    /\ UNCHANGED <<fs, dl, hist, out, meta, env>>

\* the deferred os.RemoveAll(runnerDir) on the way out
DeferredRemoveAll(h) ==
    /\ run[h].pc = "defer"
    /\ fs' = RemoveAll(fs, RunnerDir(h))
    /\ run' = [run EXCEPT ![h] = [@ EXCEPT !.pc = "done"]]
    /\ UNCHANGED <<dl, hist, out, meta, env>>

\* "go run" has built the runner and runs it as its child process
RunnerStarts(h) ==
    /\ run[h].proc = "running"
    /\ run[h].worker = "none"
    /\ run' = [run EXCEPT ![h] = [@ EXCEPT !.worker = "running"]]
    /\ UNCHANGED <<fs, dl, hist, out, meta, env>>

\* the worker ends by itself (the build fails, the runner exits), and "go run"
\* with it; the handler does not look at it
WorkerExits(h) ==
    /\ run[h].proc = "running" \/ run[h].worker = "running"
    /\ run' = [run EXCEPT ![h] = [@ EXCEPT !.proc = IF @ = "running" THEN "exited" ELSE @,
                                           !.worker = IF @ = "running" THEN "exited" ELSE @]]
    /\ UNCHANGED <<fs, dl, hist, out, meta, env>>

RunnerInit ==
    /\ fs \in RunnerStores
    /\ run = [h \in Handles |-> IdleHandle]
    /\ dl = [p \in Procs |-> IdleRec]
    /\ hist = NoHist
    /\ out = NoOut
    /\ meta = NoMeta
    /\ env = NoEnv

RunnerNext ==
    \E h \in Handles :
        \/ \E model \in RunnerModels : Generate(h, model)
        \/ CheckModel(h)
        \/ MkdirTemp(h)
        \/ CmdStart(h)
        \/ Sleep(h)
        \/ CallerCancels(h)
        \/ SleepTick(h)
        \/ PlaceholderAnswer(h)
        \/ ProcessKill(h)
        \/ DeferredRemoveAll(h)
        \/ RunnerStarts(h)
        \/ WorkerExits(h)

RunnerSpec == RunnerInit /\ [][RunnerNext]_vars

----------------------------------------------------------------------------
(* Claims about the supervisor, checked under RunnerSpec *)

\* the state of the runner handle of a request, read off the handler's position:
\* the worker is being started, the handler waits for it to come up, the caller is
\* being answered with a generation, the worker is being torn down, all is over;
\* Failed once the handler gave up on a worker it had begun to start
HandleState(r) ==
    CASE r.pc = "start" -> "Spawning"
      [] r.pc \in {"sleep", "respond"} -> "WaitingHealthy"
      [] r.pc = "kill" -> "Streaming"
      [] r.pc = "defer" /\ r.status = 200 -> "Terminating"
      [] r.pc = "done" /\ r.status = 200 -> "Terminated"
      [] r.pc = "defer" /\ r.status # 200 -> "Failed"
      [] r.pc = "done" /\ r.status = 500 /\ r.modelArg # <<>> -> "Failed"
      [] OTHER -> "None"

\* the order of the states of a handle
HandleChain ==
    <<"None", "Spawning", "WaitingHealthy", "Loading", "Ready", "Streaming",
      "Terminating", "Terminated">>

\* one step of a handle: nothing, the next state of the chain, or Failed from a
\* state that is not terminal
HandleStep(s, t) ==
    \/ s = t
    \/ \E i \in 1..(Len(HandleChain) - 1) : HandleChain[i] = s /\ HandleChain[i + 1] = t
    \/ s \notin {"Terminated", "Failed"} /\ t = "Failed"

\* C19: a handle only moves from a state to the next one of Spawning,
\* WaitingHealthy, Loading, Ready, Streaming, Terminating, Terminated, or to Failed
\* from a state that is not terminal: it is Loading (the load command sent) only
\* after WaitingHealthy, Streaming (the generation request forwarded, the caller
\* being answered) only after Ready, and it never leaves Terminated or Failed
C19_HandleStateMachine ==
    [][\A h \in Handles : HandleStep(HandleState(run[h]), HandleState(run'[h]))]_vars

----------------------------------------------------------------------------
(* More claims about the health wait, checked under HealthSpec *)

\* the wait returned an error
WaitFailed(r) == WaitReturned(r) /\ r.result # "nil"

\* C21: whenever the wait returns an error after at least one failed poll, be it
\* on its own deadline or on the caller's context, the error carries the
\* diagnostic of the last failed poll: the status it answered or its
\* connection error
C21_ErrorCarriesLastDiagnostic ==
    (WaitFailed(run) /\ run.lastFail # "none") => run.detail = run.lastFail

----------------------------------------------------------------------------
(* The generation pipeline of the supervisor against a worker that speaks the
   micro-protocol (/health, /load, /completion).  The worker's answers are those
   of the stub backend of the runner's tests; the supervisor's steps follow the
   state machine of the runner supervisor. *)

\* the workers: the options of the stub backend (allowLoad, expectModel with the
\* model path present or not, errorOnCompletion), whether /health ever answers
\* 200, and whether the completion stream stops short of its last chunk
Workers ==
    [allowLoad : BOOLEAN, missing : BOOLEAN, errorOnCompletion : BOOLEAN,
     healthy : BOOLEAN, truncates : BOOLEAN]

\* GET /health of the stub: "ok"; a worker that never comes up answers 503
WorkerHealth(o) ==
    IF o.healthy THEN [status |-> 200, body |-> "ok"]
    ELSE [status |-> 503, body |-> "backend unhealthy"]

\* POST /load of the stub: 400 "blocked" when loads are not allowed, 404 "missing
\* model" when the model path is expected and os.Stat fails, 200 otherwise
WorkerLoad(o) ==
    IF ~o.allowLoad THEN [status |-> 400, body |-> "blocked"]
    ELSE IF o.missing THEN [status |-> 404, body |-> "missing model"]
    ELSE [status |-> 200, body |-> "ok"]

\* POST /completion of the stub: 500 "backend failure", or a stream of one
\* content chunk (done false) and the done chunk; a worker that breaks off sends
\* the content chunk only
WorkerCompletion(o) ==
    IF o.errorOnCompletion
    THEN [status |-> 500, body |-> "backend failure", chunks |-> <<>>]
    ELSE [status |-> 200, body |-> "ok",
          chunks |-> IF o.truncates THEN <<"content">> ELSE <<"content", "done">>]

\* the longest stream relayed to a caller
MaxStream == 3

\* a pipeline that has not begun
IdlePipeline ==
    [state |-> "None", worker |-> CHOOSE o \in Workers : TRUE, fail |-> "none",
     message |-> "none", proc |-> "none", loads |-> 0, loadStatus |-> 0,
     forwarded |-> FALSE,
     status |-> 0, stream |-> <<>>, pending |-> <<>>, closed |-> FALSE,
     cancelled |-> FALSE]

\* mutant: a failing pipeline leaves the caller's answer open
FailPipeline_LeavesOpen(r, kind, msg) ==
    [r EXCEPT !.state = "Failed", !.fail = kind, !.message = msg,
              !.proc = IF @ = "running" THEN "stopped" ELSE @]

\* the pipeline fails: the handle is Failed with the reason and the message, the
\* worker is stopped, and the caller gets a non-success status when nothing was
\* sent yet, a terminal error chunk when the stream had begun
FailPipeline(r, kind, msg) ==
    [r EXCEPT !.state = "Failed", !.fail = kind, !.message = msg,
              !.proc = IF @ = "running" THEN "stopped" ELSE @,
              !.status = IF @ = 0 THEN 500 ELSE @,
              !.stream = IF r.status = 200 THEN Append(@, "error") ELSE @,
              !.pending = <<>>,
              !.closed = TRUE]

\* Spawning: a generation request creates the handle and starts a worker
PipeSpawn(h, o) ==
    /\ run[h].state = "None"
    /\ run' = [run EXCEPT ![h] = [@ EXCEPT !.state = "Spawning", !.worker = o]]
    /\ UNCHANGED <<fs, dl, hist, out, meta, env>>

\* the start of the worker succeeded (WaitingHealthy) or not (Failed(SpawnError))
PipeSpawned(h) ==
    /\ run[h].state = "Spawning"
    /\ \E ok \in BOOLEAN :
          run' = [run EXCEPT ![h] =
                    IF ok THEN [@ EXCEPT !.state = "WaitingHealthy", !.proc = "running"]
                    ELSE FailPipeline(@, "SpawnError", "none")]
    /\ UNCHANGED <<fs, dl, hist, out, meta, env>>

\* WaitingHealthy ends: a poll succeeded and the load command is sent (Loading),
\* or the deadline passed (Failed(HealthTimeout) with the last diagnostic)
PipeHealth(h) ==
    /\ run[h].state = "WaitingHealthy"
    /\ run' = [run EXCEPT ![h] =
                 IF WorkerHealth(run[h].worker).status = 200
                 THEN [@ EXCEPT !.state = "Loading", !.loads = 1]
                 ELSE FailPipeline(@, "HealthTimeout", WorkerHealth(run[h].worker).body)]
    /\ UNCHANGED <<fs, dl, hist, out, meta, env>>

\* mutant: the answer to the load command is not looked at
LoadAnswered_IgnoresStatus(r) ==
    [r EXCEPT !.state = "Ready", !.loadStatus = WorkerLoad(r.worker).status]

\* Loading ends: 200 makes the handle Ready, any other status makes it
\* Failed(LoadRejected) with the worker's message
LoadAnswered(r) ==
    LET a == WorkerLoad(r.worker)
        seen == [r EXCEPT !.loadStatus = a.status]
    IN  IF a.status = 200
        THEN [seen EXCEPT !.state = "Ready"]
        ELSE FailPipeline(seen, "LoadRejected", a.body)

PipeLoad(h) ==
    /\ run[h].state = "Loading"
    /\ run' = [run EXCEPT ![h] = LoadAnswered(run[h])]
    /\ UNCHANGED <<fs, dl, hist, out, meta, env>>

\* Ready -> Streaming: the request is forwarded; a non-success answer of the
\* worker fails the pipeline with BackendFailure, a success opens the caller's
\* stream
PipeForward(h) ==
    /\ run[h].state = "Ready"
    /\ run' = [run EXCEPT ![h] =
                 LET a == WorkerCompletion(run[h].worker)
                     r == [@ EXCEPT !.forwarded = TRUE]
                 IN  IF a.status = 200
                     THEN [r EXCEPT !.state = "Streaming", !.status = 200,
                                    !.pending = a.chunks]
                     ELSE FailPipeline(r, "BackendFailure", a.body)]
    /\ UNCHANGED <<fs, dl, hist, out, meta, env>>

\* mutant: the relay goes on after the done chunk
Relay_PastDone(r) ==
    [r EXCEPT !.stream = Append(@, Head(r.pending)),
              !.pending = IF Head(@) = "done" THEN @ ELSE Tail(@)]

\* one chunk of the worker's stream is passed to the caller; the done chunk ends
\* the stream (Terminating)
Relay(r) ==
    IF Head(r.pending) = "done"
    THEN [r EXCEPT !.stream = Append(@, "done"), !.pending = <<>>,
                   !.state = "Terminating", !.closed = TRUE]
    ELSE [r EXCEPT !.stream = Append(@, Head(r.pending)), !.pending = Tail(@)]

PipeRelay(h) ==
    /\ run[h].state = "Streaming"
    /\ run[h].pending # <<>>
    /\ Len(run[h].stream) < MaxStream
    /\ run' = [run EXCEPT ![h] = Relay(run[h])]
    /\ UNCHANGED <<fs, dl, hist, out, meta, env>>

\* the worker's stream ended without a done chunk: BackendFailure
PipeStreamEnds(h) ==
    /\ run[h].state = "Streaming"
    /\ run[h].pending = <<>>
    /\ run' = [run EXCEPT ![h] = FailPipeline(@, "BackendFailure", "stream ended")]
    /\ UNCHANGED <<fs, dl, hist, out, meta, env>>

\* Terminating -> Terminated: the worker is stopped
PipeStop(h) ==
    /\ run[h].state = "Terminating"
    /\ run' = [run EXCEPT ![h] = [@ EXCEPT !.state = "Terminated",
                  !.proc = IF @ = "running" THEN "stopped" ELSE @]]
    /\ UNCHANGED <<fs, dl, hist, out, meta, env>>

\* the caller cancels: the handle is Failed(Cancelled), the worker stopped, and
\* nothing more is written to the caller, who is gone
PipeCancel(h) ==
    /\ run[h].state \in {"Spawning", "WaitingHealthy", "Loading", "Ready", "Streaming"}
    /\ run' = [run EXCEPT ![h] = [@ EXCEPT !.state = "Failed", !.fail = "Cancelled",
                  !.cancelled = TRUE, !.pending = <<>>, !.closed = TRUE,
                  !.proc = IF @ = "running" THEN "stopped" ELSE @]]
    /\ UNCHANGED <<fs, dl, hist, out, meta, env>>

PipelineInit ==
    /\ run = [h \in Handles |-> IdlePipeline]
    /\ fs = [q \in {modelsDir} |-> DIR]
    /\ dl = [p \in Procs |-> IdleRec]
    /\ hist = NoHist
    /\ out = NoOut
    /\ meta = NoMeta
    /\ env = NoEnv

PipelineNext ==
    \E h \in Handles :
        \/ \E o \in Workers : PipeSpawn(h, o)
        \/ PipeSpawned(h)
        \/ PipeHealth(h)
        \/ PipeLoad(h)
        \/ PipeForward(h)
        \/ PipeRelay(h)
        \/ PipeStreamEnds(h)
        \/ PipeStop(h)
        \/ PipeCancel(h)

PipelineSpec == PipelineInit /\ [][PipelineNext]_vars

\* the pipelines with every handle's steps taken in the end: a handler runs on
\* its own goroutine and none of its steps waits for another handle
PipelineLive == PipelineSpec /\ \A h \in Handles : WF_vars(PipeRelay(h) \/ PipeStreamEnds(h))

----------------------------------------------------------------------------
(* Claims about the pipeline, checked under PipelineSpec *)

\* the caller was told of an error: a non-success status, or a terminal error
\* chunk on a stream that had begun
ErrorIndicated(r) ==
    \/ r.status >= 400
    \/ r.stream # <<>> /\ r.stream[Len(r.stream)] = "error"

RECURSIVE DoneChunks(_)
DoneChunks(stream) ==
    IF stream = <<>> THEN 0
    ELSE (IF Head(stream) = "done" THEN 1 ELSE 0) + DoneChunks(Tail(stream))

WorkerFailedCompletion(r) ==
    /\ r.forwarded
    /\ ~r.cancelled
    /\ \/ WorkerCompletion(r.worker).status # 200
       \/ r.worker.truncates /\ r.pending = <<>>

----------------------------------------------------------------------------
(* More claims about the supervisor, checked under RunnerSpec *)

\* C25: on every exit path of a generation pipeline the worker process, if it
\* was started, is stopped and the temporary state is released: no handle is
\* Terminated or Failed, its handler returned, while its worker is still running
\* or its temporary directory still exists
C25_CleanupOnEveryExit ==
    \A h \in Handles :
        (run[h].pc = "done" /\ HandleState(run[h]) \in {"Terminated", "Failed"}) =>
            /\ run[h].proc # "running"
            /\ run[h].worker # "running"
            /\ ~Exists(fs, RunnerDir(h))

\* a step in which the worker of handle h fails: its start fails, it exits by
\* itself, or the handler that failed to start it cleans up on its way out
WorkerFailure(h) ==
    \/ CmdStart(h) /\ run'[h].status = 500
    \/ WorkerExits(h)
    \/ DeferredRemoveAll(h) /\ run[h].status = 500

\* the files of the artifact store
StoreOf(f) == [q \in {r \in DOMAIN f : IsUnder(r, modelsDir) \/ r = modelsDir} |-> f[q]]

\* C26: with several pipelines running, the failure of one worker changes its
\* own handle only: every other handle, its temporary directory included, and
\* every file of the artifact store are as they were
C26_FailureIsIsolated ==
    [][\A h \in Handles :
          WorkerFailure(h) =>
              /\ \A g \in Handles \ {h} :
                    /\ run'[g] = run[g]
                    /\ Exists(fs', RunnerDir(g)) = Exists(fs, RunnerDir(g))
              /\ StoreOf(fs') = StoreOf(fs)]_vars

\* the start of one worker failed and its handler returned while the other
\* pipeline, for a model of the store, waits for its worker with its directory
\* in place
C26_Witness ==
    /\ run[1].pc = "done"
    /\ HandleState(run[1]) = "Failed"
    /\ run[2].pc = "sleep"
    /\ Exists(fs, RunnerDir(2))
    /\ ModelExists(fs, run[2].localName)

----------------------------------------------------------------------------
(* The start of the worker: startMLXRunner.  env is the environment of the
   supervisor, a list of key and value pairs as os.Environ() returns it; out is
   the command the function returns. *)

\* the values OLLAMA_MODELS has in the supervisor's environment; NoName is the
\* empty value
ModelsRoots == {NoName, <<"/", "d">>, <<"/", "t">>}

\* the root envconfig.Models() falls back to
DefaultModels == <<"~", "/", "m">>

\* the environments of the supervisor: PATH, and OLLAMA_MODELS set or not
ParentEnvs ==
    { << <<"PATH", <<"/", "b">> >> >> }
        \cup { << <<"OLLAMA_MODELS", v>>, <<"PATH", <<"/", "b">> >> >> : v \in ModelsRoots }
        \cup { << <<"PATH", <<"/", "b">> >>, <<"OLLAMA_MODELS", v>> >> : v \in ModelsRoots }

\* os.Getenv as a process sees it: the value of the last entry of the key, the
\* empty value when there is none
RECURSIVE Getenv(_, _)
Getenv(e, key) ==
    IF e = <<>> THEN NoName
    ELSE IF e[Len(e)][1] = key THEN e[Len(e)][2]
    ELSE Getenv(SubSeq(e, 1, Len(e) - 1), key)

\* the variable is set in the environment
IsSet(e, key) == \E i \in 1..Len(e) : e[i][1] = key

\* envconfig.Models(): OLLAMA_MODELS when it has a value, else the default root
envconfigModels(e) ==
    IF Getenv(e, "OLLAMA_MODELS") # NoName THEN Getenv(e, "OLLAMA_MODELS") ELSE DefaultModels

\* the ports net.Listen("tcp", "127.0.0.1:0") hands out
FreePorts == {1, 2, 3}

\* mutant: cmd.Env is left unset and the worker inherits the environment
CmdEnv_Inherited(e) == e

\* cmd.Env = append(os.Environ(), "OLLAMA_MODELS="+envconfig.Models())
CmdEnv(e) == Append(e, <<"OLLAMA_MODELS", envconfigModels(e)>>)

\* no command has been built
NoCmd == [op |-> "none", err |-> FALSE, port |-> 0, model |-> NoName, cmdEnv |-> <<>>,
          root |-> NoName]

\* startMLXRunner(ctx, modelName): a port is allocated, or the call fails with
\* "allocate port"; the command carries the model name, the port and the
\* environment
startMLXRunner(modelName) ==
    /\ \E ok \in BOOLEAN :
          IF ok
          THEN \E port \in FreePorts :
                  out' = [NoCmd EXCEPT !.op = "start", !.port = port, !.model = modelName,
                                       !.cmdEnv = CmdEnv(env), !.root = envconfigModels(env)]
          ELSE out' = [NoCmd EXCEPT !.op = "start", !.err = TRUE]
    /\ UNCHANGED <<fs, dl, hist, meta, env, run>>

\* the supervisor's environment is changed (os.Setenv, t.Setenv)
Setenv ==
    /\ \E e \in ParentEnvs : env' = e
    /\ UNCHANGED <<fs, dl, hist, out, meta, run>>

StartInit ==
    /\ env \in ParentEnvs
    /\ out = NoCmd
    /\ fs = [q \in {modelsDir} |-> DIR]
    /\ dl = [p \in Procs |-> IdleRec]
    /\ hist = NoHist
    /\ run = NoRun
    /\ meta = NoMeta

StartNext ==
    \/ \E modelName \in RunnerModels : startMLXRunner(modelName)
    \/ Setenv

StartSpec == StartInit /\ [][StartNext]_vars

----------------------------------------------------------------------------
(* Claims about the start of the worker, checked under StartSpec *)

----------------------------------------------------------------------------
(* Claims about the names the supervisor hands on, checked under RunnerSpec *)

\* C28: for a generation request the name handed to the start of the worker
\* and the name handed to the load command are both the sanitized local name,
\* every "/" replaced by "_", the name whose existence was checked, and never the
\* display id: a started worker was given it, and a request answered with
\* success had it loaded
C28_LocalNameHandedOn ==
    \A h \in Handles :
        /\ run[h].proc # "none" =>
               /\ run[h].localName = ReplaceAll(run[h].model, "/", "_")
               /\ ModelExists(fs, run[h].localName)
               /\ run[h].modelArg = <<run[h].localName>>
        /\ run[h].status = 200 => run[h].loadArg = <<run[h].localName>>

\* the handler of h is past its check of the model
Checked(r) == r.pc \notin {"idle", "exists"}

\* C29: a generation request for an id for which ModelExists is false is
\* answered 404, and no worker is started and no temporary directory made for it
C29_MissingModelNotFound ==
    \A h \in Handles :
        (Checked(run[h]) /\ ~ModelExists(fs, run[h].localName)) =>
            /\ run[h].status = 404
            /\ run[h].pc = "done"
            /\ run[h].proc = "none"
            /\ run[h].worker = "none"
            /\ ~Exists(fs, RunnerDir(h))

\* a request for a/b, whose directory holds config.json and no weights, was
\* answered 404
C29_Witness ==
    /\ run[1].model = IdAB
    /\ run[1].status = 404
    /\ Exists(fs, FilepathJoin(GetModelPath(IdAB), ConfigJSON))

----------------------------------------------------------------------------
(* Claims about the order of the transfers, checked under Spec *)

\* the step issues a file request of invocation p
FileRequested(p) ==
    /\ dl'[p].pc = "await"
    /\ dl'[p].netReqs > dl[p].netReqs

\* C30: the files of one invocation are fetched strictly in manifest order, one
\* transfer at a time: the loop moves from entry i to entry i+1 only, and only
\* in a step that leaves entry i in place (skipped, or renamed into place), every
\* file request is for the entry the loop is at, and once the invocation has
\* failed on an entry it requests nothing more
C30_SequentialInManifestOrder ==
    [][\A p \in Procs :
          /\ (dl[p].pc \in {"loop", "await", "reading"} /\ dl'[p].pc # "idle") =>
                 /\ dl'[p].idx \in {dl[p].idx, dl[p].idx + 1}
                 /\ dl'[p].idx = dl[p].idx + 1 =>
                        /\ dl'[p].pc = "loop"
                        /\ Exists(fs', DestOf(dl[p], dl[p].idx))
          /\ FileRequested(p) =>
                 /\ dl[p].pc \in {"loop", "await"}
                 /\ dl'[p].idx = dl[p].idx
                 /\ dl'[p].idx \in 1..Len(dl'[p].files)
          /\ (Returned(dl[p]) /\ dl[p].result # "ok") =>
                 dl'[p].pc \in {"done", "idle", "fetch"}]_vars

\* the request for the second entry of a manifest is out and the first entry is
\* in place
C30_Witness ==
    /\ dl[1].pc = "await"
    /\ dl[1].idx = 2
    /\ Exists(fs, DestOf(dl[1], 1))

----------------------------------------------------------------------------
(* Claims about the partial file and the request, checked under Spec *)

\* downloadFileWithSize is entered for the current file of p in this step
EntersFile(p) ==
    /\ dl[p].pc = "loop"
    /\ dl[p].idx <= Len(dl[p].files)
    /\ ~dl[p].cancelled
    /\ dl'[p].pc \in {"loop", "await", "done"}
    /\ dl'[p] # dl[p]
    /\ dl'[p].cancelled = dl[p].cancelled

\* the destination of the current file is already complete
DestComplete(f, d) ==
    /\ expectedSize(d) > 0
    /\ Exists(f, destPath(d))
    /\ f[destPath(d)] = expectedSize(d)

\* C31: before requesting a file whose destination is not already complete, the
\* partial file decides the request: a partial file of the expected size is
\* renamed into place and no request is sent; a larger one is deleted and the
\* request carries no Range; a smaller non-empty one makes the request carry
\* Range starting at its size; with no partial file there is no Range (0).
C31_PartialDecidesRequest ==
    [][\A p \in Procs :
          (EntersFile(p) /\ ~DestComplete(fs, dl[p])) =>
             LET d == dl[p]
                 tmp == tmpPath(d)
                 dest == destPath(d)
                 T == expectedSize(d)
             IN  /\ (Exists(fs, tmp) /\ T > 0 /\ fs[tmp] = T) =>
                        /\ dl'[p].pc = "loop" /\ dl'[p].idx = d.idx + 1
                        /\ dl'[p].netReqs = d.netReqs
                        /\ Exists(fs', dest) /\ fs'[dest] = T
                        /\ ~Exists(fs', tmp)
                 /\ (Exists(fs, tmp) /\ T > 0 /\ fs[tmp] > T) =>
                        /\ dl'[p].pc = "await" /\ dl'[p].range = 0
                        /\ ~Exists(fs', tmp)
                 /\ (Exists(fs, tmp) /\ T > 0 /\ fs[tmp] < T /\ fs[tmp] > 0) =>
                        /\ dl'[p].pc = "await" /\ dl'[p].range = fs[tmp]
                        /\ fs' = fs
                 /\ ~Exists(fs, tmp) =>
                        (dl'[p].pc = "await" => dl'[p].range = 0)]_vars

\* a partial file smaller than the expected size was found and the request
\* carries Range starting at its size
C31_Witness ==
    /\ dl[1].pc = "await"
    /\ dl[1].range > 0
    /\ expectedSize(dl[1]) > dl[1].range
    /\ Exists(fs, tmpPath(dl[1]))
    /\ fs[tmpPath(dl[1])] = dl[1].range

----------------------------------------------------------------------------
(* One file transfer with the bytes of the files, the response headers and the
   progress reports: downloadFileWithSize called from the loop of
   DownloadMLXModel, with the destination directory in place.  The record of
   the transfer is held in out. *)

\* bytes of a file, of a response body and of a declared size drawn for a transfer
MaxSize == 2

\* a header that is not in the response
Absent == -1

HeaderValues == {Absent} \cup (0..(MaxSize + 1))

File(bytes) == [there |-> TRUE, bytes |-> bytes]

NoFile == [there |-> FALSE, bytes |-> <<>>]

\* bytes written by an earlier attempt, and bytes of the response of this one
OldBytes(n) == [i \in 1..n |-> <<"old", i>>]

NewBytes(n) == [i \in 1..n |-> <<"new", i>>]

\* the transfer of one file before DownloadMLXModel reaches it
TransferStart(expectSize, part, dest) ==
    [pc |-> "start", expectSize |-> expectSize, part |-> part, dest |-> dest,
     part0 |-> part, existingSize |-> 0, range |-> 0, reqs |-> 0, lastRange |-> 0,
     status |-> 0, cl |-> Absent, cr |-> Absent, total |-> 0,
     resuming |-> FALSE, downloaded |-> 0, body |-> <<>>, got |-> <<>>,
     fileTotal |-> 0, calls |-> <<>>, events |-> <<>>, reads |-> 0, result |-> "none"]

\* the callback DownloadMLXModel hands to downloadFileWithSize
Report(t, fileDownloaded, discoveredTotal, afterRead) ==
    LET ft == IF t.fileTotal = 0 /\ discoveredTotal > 0 THEN discoveredTotal
              ELSE t.fileTotal
    IN  [t EXCEPT !.fileTotal = ft,
                  !.calls = Append(@, <<fileDownloaded, discoveredTotal>>),
                  !.events = IF ft > 0
                             THEN Append(@, [completed |-> fileDownloaded, total |-> ft,
                                             afterRead |-> afterRead])
                             ELSE @]

\* the loop body before the call: fileTotal and the initial progress
InitialProgress(t) ==
    [t EXCEPT !.fileTotal = t.expectSize,
              !.events = IF t.expectSize > 0
                         THEN Append(@, [completed |-> 0, total |-> t.expectSize,
                                         afterRead |-> FALSE])
                         ELSE @]

TransferReturns(t, result) == [t EXCEPT !.pc = "done", !.result = result]

\* downloadFileWithSize up to client.Do
TransferBegin(t) ==
    IF t.dest.there /\ t.expectSize > 0 /\ Len(t.dest.bytes) = t.expectSize
    THEN TransferReturns(Report(t, t.expectSize, t.expectSize, FALSE), "ok")
    ELSE IF t.part.there /\ t.expectSize > 0 /\ Len(t.part.bytes) = t.expectSize
    THEN TransferReturns([Report(t, t.expectSize, t.expectSize, FALSE)
                             EXCEPT !.dest = t.part, !.part = NoFile], "ok")
    ELSE LET over == t.part.there /\ t.expectSize > 0 /\ Len(t.part.bytes) > t.expectSize
             existingSize == IF t.part.there /\ ~over THEN Len(t.part.bytes) ELSE 0
         IN  [t EXCEPT !.pc = "await",
                       !.part = IF over THEN NoFile ELSE @,
                       !.existingSize = existingSize,
                       !.range = existingSize,
                       !.reqs = @ + 1]

\* the total handed to the progress callback
actualTotalSize(expectSize, existingSize, status, cl, cr) ==
    LET fromLength == IF expectSize > 0 THEN expectSize
                      ELSE IF cl # Absent
                      THEN (IF existingSize > 0 /\ status = 206 THEN existingSize + cl
                            ELSE cl)
                      ELSE 0
    IN  IF cr # Absent /\ cr > 0 THEN cr ELSE fromLength

\* mutant: on 200 the body is appended to the stale partial file
TransferStatus_KeepStale(t, st, cl, cr, body) ==
    LET total == actualTotalSize(t.expectSize, t.existingSize, st, cl, cr)
        t1 == [t EXCEPT !.status = st, !.cl = cl, !.cr = cr, !.total = total,
                        !.lastRange = t.range]
    IN  CASE st = 0 -> TransferReturns(t1, "transfer")
          [] st \in {401, 403} -> TransferReturns(t1, "auth")
          [] st \in {200, 206} ->
                IF st = 206 /\ ~t.part.there THEN TransferReturns(t1, "transfer")
                ELSE Report([t1 EXCEPT !.pc = "reading", !.resuming = (st = 206),
                                       !.part = IF @.there THEN @ ELSE File(<<>>),
                                       !.downloaded = t.existingSize,
                                       !.body = body, !.got = <<>>],
                            t.existingSize, total, FALSE)
          [] st = 416 -> TransferBegin([t1 EXCEPT !.part = NoFile])
          [] OTHER -> TransferReturns(t1, "status")

\* the response headers arrived: the total and the switch on resp.StatusCode
TransferStatus(t, st, cl, cr, body) ==
    LET total == actualTotalSize(t.expectSize, t.existingSize, st, cl, cr)
        t1 == [t EXCEPT !.status = st, !.cl = cl, !.cr = cr, !.total = total,
                        !.lastRange = t.range]
    IN  CASE st = 0 -> TransferReturns(t1, "transfer")
          [] st \in {401, 403} -> TransferReturns(t1, "auth")
          [] st = 206 ->
                IF ~t.part.there THEN TransferReturns(t1, "transfer")
                ELSE Report([t1 EXCEPT !.pc = "reading", !.resuming = TRUE,
                                       !.downloaded = t.existingSize,
                                       !.body = body, !.got = <<>>],
                            t.existingSize, total, FALSE)
          [] st = 200 ->
                LET t2 == [t1 EXCEPT !.pc = "reading", !.resuming = FALSE,
                                     !.part = File(<<>>), !.downloaded = 0,
                                     !.body = body, !.got = <<>>]
                IN  IF total > 0 THEN Report(t2, 0, total, FALSE) ELSE t2
          [] st = 416 -> TransferBegin([t1 EXCEPT !.part = NoFile])
          [] OTHER -> TransferReturns(t1, "status")

\* one Read of the body returned n > 0 bytes: written, counted and reported
TransferRead(t, n) ==
    LET data == SubSeq(t.body, 1, n)
    IN  Report([t EXCEPT !.part = File(t.part.bytes \o data),
                         !.got = @ \o data,
                         !.body = SubSeq(@, n + 1, Len(@)),
                         !.downloaded = @ + n,
                         !.reads = @ + 1],
               t.downloaded + n, t.total, TRUE)

\* Read returned io.EOF: the partial file is renamed into place
TransferEOF(t) ==
    TransferReturns([t EXCEPT !.dest = t.part, !.part = NoFile], "ok")

\* Read returned another error: the function returns it, the partial file stays
TransferReadErr(t) ==
    IF ~t.resuming /\ t.downloaded > 0 THEN TransferReturns(t, "interrupted")
    ELSE TransferReturns(t, "transfer")

\* the partial files and destinations a transfer may find
PartFiles == {NoFile} \cup { File(OldBytes(n)) : n \in 0..MaxSize }

DestFiles(expectSize) ==
    {NoFile} \cup (IF expectSize > 0 THEN {File(OldBytes(expectSize))} ELSE {})

\* answers of the server: any status, headers and body; the transport ends a body
\* at its Content-Length, and fails the read when the body is shorter
TransferAnswers ==
    { a \in [st : HTTPStatuses, cl : HeaderValues, cr : HeaderValues, len : 0..MaxSize] :
        /\ a.cl # Absent => a.len <= a.cl
        /\ a.st \notin {200, 206} => a.len = 0 }

TransferInit ==
    /\ out \in { TransferStart(expectSize, part, dest) :
                    expectSize \in 0..MaxSize, part \in PartFiles, dest \in {NoFile} }
    /\ fs = [q \in {modelsDir} |-> DIR]
    /\ dl = [p \in Procs |-> IdleRec]
    /\ hist = NoHist
    /\ meta = NoMeta
    /\ env = NoEnv
    /\ run = NoRun

\* the loop of DownloadMLXModel reaches the file
TransferEnter ==
    /\ out.pc = "start"
    /\ \E dest \in DestFiles(out.expectSize) :
          out' = TransferBegin(InitialProgress([out EXCEPT !.dest = dest]))
    /\ UNCHANGED <<fs, dl, hist, meta, env, run>>

\* client.Do returns
TransferRespond ==
    /\ out.pc = "await"
    /\ \E a \in TransferAnswers :
          /\ a.st = 416 => out.reqs < MaxRequests
          /\ out' = TransferStatus(out, a.st, a.cl, a.cr, NewBytes(a.len))
    /\ UNCHANGED <<fs, dl, hist, meta, env, run>>

TransferReadData ==
    /\ out.pc = "reading"
    /\ \E n \in 1..Min(MaxChunk, Len(out.body)) : out' = TransferRead(out, n)
    /\ UNCHANGED <<fs, dl, hist, meta, env, run>>

TransferReadEOF ==
    /\ out.pc = "reading"
    /\ out.body = <<>>
    /\ out.cl # Absent => Len(out.got) = out.cl
    /\ out' = TransferEOF(out)
    /\ UNCHANGED <<fs, dl, hist, meta, env, run>>

TransferReadFails ==
    /\ out.pc = "reading"
    /\ out' = TransferReadErr(out)
    /\ UNCHANGED <<fs, dl, hist, meta, env, run>>

TransferNext ==
    \/ TransferEnter
    \/ TransferRespond
    \/ TransferReadData
    \/ TransferReadEOF
    \/ TransferReadFails

TransferSpec == TransferInit /\ [][TransferNext]_vars

\* the transfer is past the switch on the status code
PastSwitch(t) ==
    \/ t.pc = "reading"
    \/ t.pc = "done" /\ t.result \in {"ok", "interrupted", "transfer"} /\ t.status \in {200, 206}
          /\ (t.status = 206 => t.resuming)

\* C32: on a 206 response the received bytes are appended after the existing
\* partial bytes, which stay unchanged, and the first progress report counts the
\* pre-existing bytes as already completed; on a 200 response the stale partial
\* content is discarded, the file consists only of the bytes of that response
\* and the completed count restarts at 0.
C32_AppendOn206FreshOn200 ==
    LET file == IF out.result = "ok" THEN out.dest ELSE out.part
    IN  PastSwitch(out) =>
           /\ file.there
           /\ out.status = 206 =>
                 /\ file.bytes = out.part0.bytes \o out.got
                 /\ out.calls[1][1] = Len(out.part0.bytes)
                 /\ out.downloaded = Len(out.part0.bytes) + Len(out.got)
           /\ out.status = 200 =>
                 /\ file.bytes = out.got
                 /\ out.downloaded = Len(out.got)
                 /\ \A i \in 1..Len(out.calls) : out.calls[i][1] <= Len(out.got)
                 /\ out.total > 0 => out.calls[1][1] = 0

\* a resumed transfer appended to a non-empty partial file, and a 200 answer
\* replaced a stale one
C32_Witness ==
    /\ out.pc = "done" /\ out.result = "ok"
    /\ out.got # <<>>
    /\ out.part0.there /\ out.part0.bytes # <<>>
    /\ out.status = 206

C32_WitnessFresh ==
    /\ out.pc = "done" /\ out.result = "ok"
    /\ out.got # <<>>
    /\ out.part0.there /\ out.part0.bytes # <<>>
    /\ out.status = 200 /\ out.lastRange > 0

\* the transfer ended with a read error in the middle of the body
ReadErrorReturned(t) ==
    /\ t.pc = "done"
    /\ PastSwitch(t)
    /\ t.result \in {"interrupted", "transfer"}

\* C33: on a read error in the middle of a file transfer, if at least one byte
\* was written in this attempt the partial file is kept with the bytes written
\* so far and the file fails with a transfer error; if zero bytes were written
\* in this attempt (fresh or resumed) the partial file is removed before the
\* error is returned.
C33_ReadErrorKeepsOnlyProgress ==
    ReadErrorReturned(out) =>
       /\ out.got # <<>> =>
             /\ out.part.there
             /\ out.part.bytes = (IF out.resuming THEN out.part0.bytes ELSE <<>>) \o out.got
       /\ out.got = <<>> => ~out.part.there

\* the total the progress events of a file are to carry: the declared size when
\* known, else Content-Length (plus the resume offset on 206), else the total of
\* Content-Range; 0 when none is known
DeclaredOrDiscoveredTotal(t) ==
    IF t.expectSize > 0 THEN t.expectSize
    ELSE IF t.cl # Absent /\ t.cl > 0
    THEN (IF t.status = 206 THEN t.existingSize + t.cl ELSE t.cl)
    ELSE IF t.cr # Absent /\ t.cr > 0 THEN t.cr
    ELSE 0

\* C34: the total reported in a file's progress events is the manifest-declared
\* size whenever that is known, even if the response headers state another
\* total; otherwise it is the Content-Length (plus the resume offset on a 206
\* response); otherwise the total of the Content-Range header; and every event
\* after a read buffer carries the cumulative bytes completed for that file.
C34_ReportedTotalOrder ==
    /\ \A i \in 1..Len(out.events) : out.events[i].total = DeclaredOrDiscoveredTotal(out)
    /\ (out.events # <<>> /\ out.events[Len(out.events)].afterRead) =>
          out.events[Len(out.events)].completed =
             (IF out.resuming THEN Len(out.part0.bytes) ELSE 0) + Len(out.got)

\* a regular file whose name is not that of a partial file
IsFinalName(f, q) == f[q] # DIR /\ ~HasSuffix(q[Len(q)], ExtPart)

\* the step renames the partial file of q, complete, into place
RenamedIntoPlace(p, q) ==
    /\ dl[p].pc \in {"loop", "reading"}
    /\ dl[p].idx <= Len(dl[p].files)
    /\ q = destPath(dl[p])
    /\ PartOf(q) \in DOMAIN fs
    /\ PartOf(q) \notin DOMAIN fs'
    /\ fs'[q] = fs[PartOf(q)]
    /\ \/ dl[p].pc = "reading" /\ dl[p].body = 0 /\ ~dl[p].cancelled
       \/ dl[p].pc = "loop" /\ expectedSize(dl[p]) > 0
             /\ fs[PartOf(q)] = expectedSize(dl[p])
    /\ dl'[p].pc = "loop"
    /\ dl'[p].idx = dl[p].idx + 1

\* C35: a file's final name only ever comes into existence by renaming its .part
\* file after the transfer ended without error (or when the partial file already
\* has the expected size): the downloader never writes into the destination
\* name, so no reader sees under it a file that a transfer is still writing.
C35_FinalNameOnlyByRename ==
    [][\A q \in DOMAIN fs' :
          (IsFinalName(fs', q) /\ (q \notin DOMAIN fs \/ fs[q] # fs'[q])) =>
             \E p \in Procs : RenamedIntoPlace(p, q)]_vars

\* the first file of the manifest was transferred and renamed into place while
\* the second one is being written to its partial file
C35_Witness ==
    /\ dl[1].pc = "reading"
    /\ dl[1].idx = 2
    /\ dl[1].downloaded > 0
    /\ Exists(fs, DestOf(dl[1], 1))
    /\ ~Exists(fs, destPath(dl[1]))
    /\ Exists(fs, tmpPath(dl[1]))

----------------------------------------------------------------------------
(* Cancellation while the handler waits for the worker, checked under RunnerSpec *)

\* C36: if the caller cancels while the supervisor is in WaitingHealthy, the
\* wait ends within one poll interval, no load command is sent afterwards and
\* the handle never reaches Ready.
C36_CancelEndsWait ==
    \A h \in Handles :
        run[h].cancelled =>
           /\ run[h].waited <= PollInterval
           /\ run[h].loadArg = <<>>
           /\ HandleState(run[h]) # "Ready"

----------------------------------------------------------------------------
(* More claims about DownloadMLXModel, checked under Spec *)

\* C37: after DownloadMLXModel returns nil, every manifest file whose declared
\* size is greater than 0 exists at its destination with exactly the declared
\* size, whatever bodies and statuses (200 or 206) the server sent, including a
\* body shorter or longer than announced.
C37_SuccessMeansDeclaredSizes ==
    \A p \in Procs :
        (Returned(dl[p]) /\ dl[p].result = "ok") =>
           \A i \in 1..Len(dl[p].files) :
               dl[p].sizes[i] > 0 =>
                  /\ Exists(fs, DestOf(dl[p], i))
                  /\ fs[DestOf(dl[p], i)] = dl[p].sizes[i]

----------------------------------------------------------------------------
(* Two calls of DownloadMLXModel for the same id at the same time: each caller
   calls once, the catalog answers both with the same manifest *)

RaceId == IdAB

RaceFiles == <<ConfigJSON, ModelSafetensors>>

RaceStart(p) ==
    /\ dl[p].pc = "idle"
    /\ Start(p, RaceId)

RaceFetch(p) ==
    /\ Fetch(p)
    /\ dl'[p].files = RaceFiles
    /\ \A i \in 1..Len(RaceFiles) : dl'[p].sizes[i] = RemoteSize(RaceFiles[i])

RaceNext ==
    \E p \in Procs :
        \/ RaceStart(p)
        \/ RaceFetch(p)
        \/ NextFile(p)
        \/ Finish(p)
        \/ Respond(p)
        \/ ReadData(p)
        \/ ReadEOF(p)
        \/ ReadErr(p)

RaceSpec == Init /\ [][RaceNext]_vars

\* the call returned nil
Succeeded(d) == Returned(d) /\ d.result = "ok"

\* the call returned an error after the cleanup was deferred
FailedWithCleanup(d) == Returned(d) /\ d.result # "ok" /\ d.cleanup

AllPresent(f, d) == \A i \in 1..Len(d.files) : Exists(f, DestOf(d, i))

\* C38 as stated: when two calls for the same id run concurrently, a call that
\* returns nil leaves every manifest file present in the artifact directory, and
\* the failure cleanup of the other call never removes them.
C38_SuccessKeepsFiles ==
    \A p \in Procs : Succeeded(dl[p]) => AllPresent(fs, dl[p])

\* C38: when two calls for the same id run concurrently, a call that returns nil
\* leaves every manifest file present in the artifact directory as long as the
\* other call has not failed; the failure cleanup of the other call removes the
\* whole artifact directory, with the files the successful call reports.
C38_SuccessKeepsFilesUnlessOtherFails ==
    /\ [](\A p \in Procs :
            (Succeeded(dl[p]) /\ \A q \in Procs \ {p} : ~FailedWithCleanup(dl[q])) =>
               AllPresent(fs, dl[p]))
    /\ [][\A q \in Procs :
            (~Returned(dl[q]) /\ FailedWithCleanup(dl'[q])) =>
               \A path \in DOMAIN fs' : ~IsUnder(path, modelPath(dl'[q]))]_vars

\* one call has returned nil with its files in place while the other one is
\* still reading the body of a file
C38_Witness ==
    /\ Succeeded(dl[1])
    /\ AllPresent(fs, dl[1])
    /\ dl[2].pc = "reading"
    /\ dl[2].downloaded > 0

----------------------------------------------------------------------------
(* The paths of identifiers: DeleteModel and the failure cleanup of
   DownloadMLXModel on a store that lies beside another file *)

\* a file beside the storage root
OutsideFile == << <<"k", "e", "e", "p">> >>

\* the directory names of the artifacts in the store
PathNames == { <<"a", "_", "b">>, <<"a", "_", "b", "_", "c">>, <<"x">> }

\* the identifiers handed to the store: the empty string, ".", "..", names with
\* one and two separators, a local name, a simple name
PathIds ==
    { <<>>, <<".">>, <<".", ".">>, IdAB, <<"a", "_", "b">>,
      <<"a", "/", "b", "/", "c">>, <<"x">> }

\* the store holding the artifacts of the given names, each with its descriptor
\* and weights
PathStore(names) ==
    LET files == { FilepathJoin(Append(modelsDir, n), x) :
                      n \in names, x \in {ConfigJSON, WeightsNpz} }
        dirs == {modelsDir} \cup { Append(modelsDir, n) : n \in names }
    IN  [q \in dirs \cup files \cup {OutsideFile} |-> IF q \in dirs THEN DIR ELSE 1]

NoPathOut == [op |-> "none", id |-> <<>>, before |-> <<>>]

PathInit ==
    /\ fs \in { PathStore(names) : names \in SUBSET PathNames }
    /\ out = NoPathOut
    /\ dl = [p \in Procs |-> IdleRec]
    /\ hist = NoHist
    /\ meta = NoMeta
    /\ env = NoEnv
    /\ run = NoRun

\* DeleteModel(id)
PathDelete(id) ==
    /\ fs' = DeleteModel(fs, id)
    /\ out' = [op |-> "DeleteModel", id |-> id, before |-> fs]
    /\ UNCHANGED <<dl, hist, meta, env, run>>

\* DownloadMLXModel(id) returns an error: before the cleanup is deferred when the
\* directory cannot be made, else through the deferred os.RemoveAll(modelPath)
PathDownloadFails(id) ==
    /\ fs' = IF ~MkdirAllOK(fs, GetModelPath(id)) THEN fs
             ELSE RemoveAll(MkdirAll(fs, GetModelPath(id)), GetModelPath(id))
    /\ out' = [op |-> "DownloadMLXModel", id |-> id, before |-> fs]
    /\ UNCHANGED <<dl, hist, meta, env, run>>

PathNext ==
    \/ \E id \in PathIds : PathDelete(id)
    \/ \E id \in PathIds : PathDownloadFails(id)

PathSpec == PathInit /\ [][PathNext]_vars

\* the path is a direct child of the storage root
DirectChild(path) == Len(path) = Len(modelsDir) + 1 /\ Parent(path) = modelsDir

\* C39: for every identifier string (including the empty string, ".", ".." and
\* names with several separators) GetModelPath returns a direct child directory
\* of the storage root, so DeleteModel and the failure cleanup of a download
\* never remove the storage root itself or anything outside it.
C39_PathStaysInsideRoot ==
    out.op # "none" =>
       /\ DirectChild(GetModelPath(out.id))
       /\ Exists(fs, modelsDir)
       /\ \A q \in DOMAIN out.before : ~IsUnder(q, modelsDir) => Exists(fs, q)

\* everything at and below the directory of an identifier
FilesOf(f, id) ==
    [q \in {r \in DOMAIN f : IsUnder(r, GetModelPath(id))} |-> f[q]]

\* the artifact of id2 is as it was before the operation
Untouched(id2) ==
    /\ ModelExists(fs, id2) = ModelExists(out.before, id2)
    /\ FilesOf(fs, id2) = FilesOf(out.before, id2)

\* the directories of the two identifiers are different and neither lies inside
\* the other
Apart(id, id2) ==
    /\ ~IsUnder(GetModelPath(id), GetModelPath(id2))
    /\ ~IsUnder(GetModelPath(id2), GetModelPath(id))

\* C40 as stated: DeleteModel(id) and the failure cleanup of a download of id
\* change only the artifact of id: for every other identifier id2 different from
\* id (for example "a/b" and "a_b"), ModelExists(id2) and the files of id2 are
\* the same before and after.
C40_OtherIdsUntouched ==
    out.op # "none" => \A id2 \in PathIds \ {out.id} : Untouched(id2)

\* C40: DeleteModel(id) and the failure cleanup of a download of id change only
\* what lies at or below the directory of id: for every other identifier id2
\* whose directory is different from that of id, neither lying inside the other,
\* ModelExists(id2) and the files of id2 are the same before and after.
C40_OtherDirectoriesUntouched ==
    out.op # "none" =>
       \A id2 \in PathIds \ {out.id} : Apart(out.id, id2) => Untouched(id2)

\* an artifact was deleted while another artifact of the store stays in place
C40_Witness ==
    /\ out.op = "DeleteModel"
    /\ ModelExists(out.before, out.id)
    /\ ~ModelExists(fs, out.id)
    /\ \E id2 \in PathIds : Apart(out.id, id2) /\ ModelExists(fs, id2)

====
